---- MODULE Spec2Model ----
(***************************************************************************)
(* Model of the IPECC low-level driver (hw_accelerator_driver_ipecc.c).    *)
(*                                                                         *)
(* The driver is a sequential program that talks to the IP through         *)
(* memory-mapped registers.  It is modelled as a small stack machine: the  *)
(* variable prog holds the continuation of the API call in progress, as a  *)
(* sequence of operations.  A composite operation (a C function of the     *)
(* driver) is replaced by its body when it reaches the head of prog; a     *)
(* primitive operation (one register access, one poll of a status bit, one *)
(* local computation) is one step.  The IP is a black box that reacts to   *)
(* the accesses of the driver: it becomes busy, completes, raises error    *)
(* bits, gathers randomness.                                               *)
(***************************************************************************)
EXTENDS Integers, Sequences, FiniteSets, TLC

VARIABLES
  hw,       \* the registers of the IP that the driver can observe or change
  setup,    \* hw_driver_setup_state
  phase,    \* "idle" | "running" | "returned"
  api,      \* the API call in progress (function and arguments)
  prog,     \* continuation of the call: sequence of operations
  loc,      \* locals of the call (inf_r0, inf_r1, nn_sz, token, w, ...)
  mem,      \* memory of the caller (output buffers, sizes, flags)
  ret,      \* value returned by the last call
  polled,   \* TRUE when the last status poll saw busy clear and no access followed
  rndSeen,  \* what IPECC_ENOUGH_WK_RANDOM_WAIT saw when it left its loop
  entry,    \* snapshot taken at entry of the call (history)
  trace,    \* register accesses of the call in progress (history)
  xfer,     \* a big number on its way through the data registers, byte by byte
  noted,    \* the configuration that one attack preset was seen to leave (history)
  ktrc      \* kp_trace_info_t of the caller, and the static flag of kp_trace_msg_append

vars == <<hw, setup, phase, api, prog, loc, mem, ret, polled, rndSeen, entry, trace, xfer,
          noted, ktrc>>

----------------------------------------------------------------------------
(* Program constants *)

sizeof_ip_ecc_word == 4
IPECC_BNUM_P == 0
IPECC_BNUM_A == 1
IPECC_BNUM_B == 2
IPECC_BNUM_Q == 3
IPECC_BNUM_K == 4
IPECC_BNUM_R0_X == 4
IPECC_BNUM_R0_Y == 5
IPECC_BNUM_R1_X == 6
IPECC_BNUM_R1_Y == 7
IPECC_ERR_COMP == 2
IPECC_ERR_UNKOWN_REG == 9
IPECC_ERR_NOT_ENOUGH_RANDOM_WK == 13
IPECC_R_STATUS_ERRID_BITS == 16
TOKEN_ARRAY_SZ == 4096
\* addresses in the microcode (ecc_addr.h), as hw_driver_attack_set_level quotes them
DEBUG_ECC_IRAM_RANDOM_PHI0_ADDR == 76
DEBUG_ECC_IRAM_RANDOM_PHI1_ADDR == 77
DEBUG_ECC_IRAM_SAMPLE0_KAPLSB_ADDR == 115
DEBUG_ECC_IRAM_SAMPLE1_KAPLSB_ADDR == 116
DEBUG_ECC_IRAM_JUMP_DOUBLE_ADDR == 131
ECC_IRAM_ZDBL_NOT_ALWAYS_ADDR == 506
DEBUG_ECC_IRAM_DOZDBL_ADDR == 411

(* Bounds of the model *)

\* nn (bits) the IP is configured with
NnBits == 8
\* a caller's byte length that needs more words than nn does
BigSz == 5
\* number of distinct values a data word read from the IP can take
NumWordVals == 2
\* number of opcodes of the microcode memory, as R_DBG_CAPABILITIES_1 reports it
NbOpcodes == 512
\* number of raw random bits in the TRNG raw FIFO (its write pointer)
RawQty == 2

NULL == "NULL"

\* error bits the IP can raise in the model
ErrBits == {IPECC_ERR_COMP, IPECC_ERR_UNKOWN_REG, IPECC_ERR_NOT_ENOUGH_RANDOM_WK}

\* values of a 32-bit data word returned by R_READ_DATA
WordVals == {165 * k : k \in 0..(NumWordVals - 1)}

----------------------------------------------------------------------------
(* Arithmetic helpers *)

RECURSIVE Pow2(_)
Pow2(n) == IF n = 0 THEN 1 ELSE 2 * Pow2(n - 1)

\* bitwise XOR of two naturals below 2^bits
RECURSIVE XorBits(_, _, _)
XorBits(a, b, bits) ==
  IF bits = 0 THEN 0
  ELSE (((a % 2) + (b % 2)) % 2) + 2 * XorBits(a \div 2, b \div 2, bits - 1)

\* ip_ecc_nn_words_from_bytes_sz
ip_ecc_nn_words_from_bytes_sz(sz) ==
  IF sz % sizeof_ip_ecc_word = 0 THEN sz \div sizeof_ip_ecc_word
  ELSE (sz \div sizeof_ip_ecc_word) + 1

\* ip_ecc_nn_bytes_from_bits_sz
ip_ecc_nn_bytes_from_bits_sz(sz) ==
  IF sz % 8 = 0 THEN sz \div 8 ELSE (sz \div 8) + 1

\* ip_ecc_get_nn_bit_size: R_PRIME_SIZE when nn is dynamic, NN_MAX otherwise
ip_ecc_get_nn_bit_size(h) == IF h.nndyn THEN h.nn ELSE h.nnmax

\* DIV(i, s), and ip_ecc_nn_words_from_bytes_sz for words of ws bytes
DIV(i, s) == IF i % s # 0 THEN (i \div s) + 1 ELSE i \div s

\* number of words of a big number of the current nn
NnWords(h) ==
  ip_ecc_nn_words_from_bytes_sz(ip_ecc_nn_bytes_from_bits_sz(ip_ecc_get_nn_bit_size(h)))

\* The word number k (0 = least significant) that ip_ecc_write_bignum forms
\* from the big-endian bytes a[1..a_sz]: byte j of the word is a[a_sz - (4k+j)].
FormatWord(a, a_sz, k) ==
  LET ByteAt(j) ==
        LET idx == a_sz - (sizeof_ip_ecc_word * k + j)
        IN IF idx >= 1 THEN a[idx] * Pow2(8 * j) ELSE 0
      RECURSIVE Sum(_)
      Sum(j) == IF j = sizeof_ip_ecc_word THEN 0 ELSE ByteAt(j) + Sum(j + 1)
  IN Sum(0)

\* The bytes ip_ecc_read_bignum stores from word w, number k, in a[1..a_sz]
ScatterWord(a, a_sz, k, w) ==
  [i \in DOMAIN a |->
     LET pos == a_sz - i   \* distance from the last byte
     IN IF i <= a_sz /\ pos \div sizeof_ip_ecc_word = k
          THEN (w \div Pow2(8 * (pos % sizeof_ip_ecc_word))) % 256
          ELSE a[i]]

Zeros(n) == [i \in 1..n |-> 0]
Fill(n, v) == [i \in 1..n |-> v]

----------------------------------------------------------------------------
(* Register values formed by the driver's macros *)

\* IPECC_SET_WRITE_ADDR: W_CTRL value selecting a big number for writing
IPECC_SET_WRITE_ADDR(addr, scal) ==
  [kind |-> "WRITE_NB", addr |-> addr % 4096, scal |-> (scal # 0), token |-> FALSE]

\* IPECC_SET_READ_ADDR: W_CTRL value selecting a big number for reading
IPECC_SET_READ_ADDR(addr, token) ==
  [kind |-> "READ_NB", addr |-> addr % 4096, scal |-> FALSE, token |-> (token # 0)]

\* IPECC_EXEC_PT_xxx: W_CTRL value starting a point operation
IPECC_EXEC_PT(cmd) ==
  [kind |-> cmd, addr |-> 0, scal |-> FALSE, token |-> FALSE]

Commands == {"PT_ADD", "PT_DBL", "PT_CHK", "PT_EQU", "PT_OPP", "PT_KP", "PT_NEG"}
FlagCommands == {"PT_CHK", "PT_EQU", "PT_OPP"}

\* IPECC_GET_ERROR: the error field of R_STATUS, (status >> 16) & 0xffff
IPECC_GET_ERROR(h) == h.err \cap (0..(IPECC_R_STATUS_ERRID_BITS - 1))

\* IPECC_ACK_ERROR: the value written to W_ERR_ACK, (err & 0xffff) << 16
IPECC_ACK_ERROR(err) == err \cap (0..(IPECC_R_STATUS_ERRID_BITS - 1))

\* exit condition of the loop of IPECC_ENOUGH_WK_RANDOM_WAIT, given the
\* ENOUGH_RND_WK bit just read: the loop spins while the bit is set
IPECC_ENOUGH_WK_RANDOM_WAIT_exit(bit) == ~bit

\* exit condition of the loop of IPECC_BUSY_WAIT, given the BUSY bit just read
IPECC_BUSY_WAIT_exit(bit) == ~bit

\* IPECC_IS_IP_BUSY: the BUSY bit of R_STATUS
IPECC_IS_IP_BUSY(h) == h.busy

\* IPECC_IS_IP_DEBUG_HALTED: the HALTED bit of R_DBG_STATUS
IPECC_IS_IP_DEBUG_HALTED(h) == h.halted

\* IPECC_IS_HW_SECURE: the DBG_N_PROD bit of R_CAPABILITIES is clear
C3_IPECC_IS_HW_SECURE_never(h) == FALSE
IPECC_IS_HW_SECURE(h) == h.secure

\* IPECC_IS_HW_UNSECURE: the DBG_N_PROD bit of R_CAPABILITIES is set
IPECC_IS_HW_UNSECURE(h) == ~h.secure

\* IPECC_GET_NBOPCODES: the NBOPCODES field of R_DBG_CAPABILITIES_1
IPECC_GET_NBOPCODES(h) == h.nbopcodes % 65536

\* IPECC_IS_SHUFFLING_SUPPORTED
IPECC_IS_SHUFFLING_SUPPORTED(h) == h.shuffle

\* IPECC_GET_TRNG_RAW_FIFO_WRITE_POINTER
IPECC_GET_TRNG_RAW_FIFO_WRITE_POINTER(h) == h.rawqty

\* IPECC_SET_BKPT: W_DBG_BKPT value enabling a breakpoint
IPECC_SET_BKPT(id, addr, nbbit, state) ==
  [en |-> TRUE, id |-> id % 4, addr |-> addr % 4096, nbbit |-> nbbit % 4096, state |-> state]

\* IPECC_REMOVE_BREAKPOINT: W_DBG_BKPT value disabling a breakpoint
IPECC_REMOVE_BREAKPOINT(id) ==
  [en |-> FALSE, id |-> id % 4, addr |-> 0, nbbit |-> 0, state |-> "none"]

\* IPECC_RUN_OPCODES: W_DBG_STEPS value running nb opcodes
IPECC_RUN_OPCODES(nb) == [resume |-> FALSE, run |-> TRUE, nb |-> nb % 65536]

\* IPECC_RESUME: W_DBG_STEPS value resuming execution
IPECC_RESUME == [resume |-> TRUE, run |-> FALSE, nb |-> 0]

\* IPECC_TRNG_CONFIG: W_DBG_TRNG_CFG value
IPECC_TRNG_CONFIG(debias, ta, idlenb) ==
  [debias |-> (debias # 0), ta |-> ta % 65536, idlenb |-> idlenb % 16]

\* IPECC_TRNG_COMPLETE_BYPASS: W_DBG_TRNG_CTRL_BYPASS value
IPECC_TRNG_COMPLETE_BYPASS(bit) == [bypass |-> TRUE, val |-> bit % 2]

\* IPECC_TRNG_SET_RAW_BIT_ADDR: W_DBG_TRNG_RAW_READ value
IPECC_TRNG_SET_RAW_BIT_ADDR(addr) == [read |-> TRUE, raddr |-> addr % 1048576]

\* IPECC_ATTACK_SET_HW_CFG: W_ATTACK_CFG_0 value
IPECC_ATTACK_SET_HW_CFG(naive, nocollisioncr) ==
  [not_always_add |-> naive, no_collision_cr |-> nocollisioncr]

\* the registers of the debug and attack surface that the driver writes
DebugRegs ==
  {"W_DBG_HALT", "W_DBG_BKPT", "W_DBG_STEPS", "W_DBG_OP_WADDR", "W_DBG_OPCODE",
   "W_DBG_TRNG_CFG", "W_DBG_TRNG_RESET", "W_DBG_TRNG_CTRL_POSTP", "W_DBG_TRNG_CTRL_BYPASS",
   "W_DBG_TRNG_CTRL_NNRND", "W_DBG_TRNG_CTRL_DIAG", "W_DBG_TRNG_RAW_READ",
   "W_DBG_CFG_AXIMSK", "W_DBG_CFG_XYSHUF", "W_ATTACK_CFG_0", "W_ATTACK_CFG_1"}

\* every register the driver writes
WriteRegs ==
  DebugRegs \cup {"W_CTRL", "W_WRITE_DATA", "W_R0_NULL", "W_R1_NULL", "W_SOFT_RESET",
                  "W_ERR_ACK", "W_TOKEN", "W_SMALL_SCALAR", "W_BLINDING", "W_ZREMASK"}

----------------------------------------------------------------------------
(* The IP, as the driver's comments describe its reactions *)

\* slot a write-select names, as far as the null flags and the scalar go
HwSlot(val) ==
  IF val.scal THEN "K"
  ELSE IF val.addr \in {IPECC_BNUM_R0_X, IPECC_BNUM_R0_Y} THEN "R0"
  ELSE IF val.addr \in {IPECC_BNUM_R1_X, IPECC_BNUM_R1_Y} THEN "R1"
  ELSE "other"

\* the five addresses of the microcode that hw_driver_attack_set_level patches
AttackPatchAddresses ==
  {DEBUG_ECC_IRAM_RANDOM_PHI0_ADDR, DEBUG_ECC_IRAM_RANDOM_PHI1_ADDR,
   DEBUG_ECC_IRAM_SAMPLE0_KAPLSB_ADDR, DEBUG_ECC_IRAM_SAMPLE1_KAPLSB_ADDR,
   DEBUG_ECC_IRAM_JUMP_DOUBLE_ADDR}

\* The side-channel configuration of the IP after the bitstream is loaded:
\* W_ATTACK_CFG_0 and W_ATTACK_CFG_1 clear, the AXI masking of the scalar on
\* (IPECC_W_DBG_CFG_AXIMSK_EN), and at each of the five addresses the opcode of
\* the bitstream (<<>>: no word written over it); waddr is the address last
\* written in W_DBG_OP_WADDR, fresh tells that no opcode word followed it yet
AtkInit ==
  [followed |-> TRUE, cfg0 |-> IPECC_ATTACK_SET_HW_CFG(FALSE, FALSE), cfg1 |-> 0,
   aximsk |-> 1, iram |-> [a \in AttackPatchAddresses |-> <<>>], waddr |-> 0,
   fresh |-> FALSE]

\* the side-channel configuration is not followed
NoAtk == [followed |-> FALSE]

\* the program counter and the breakpoints of the IP are not followed
NoDbg == [followed |-> FALSE]

\* Debug state of the IP when it is followed: the breakpoints that are enabled,
\* what the microcode is doing (run: "none", "free" after a command or a
\* resume, "step" after IPECC_RUN_OPCODES), the program counter and the state of
\* the main FSM that R_DBG_STATUS shows, the opcodes stepped since the last
\* command, and ww, the bit width of a limb (R_DBG_CAPABILITIES_0)
DbgInit ==
  [followed |-> TRUE, bkpt |-> {}, run |-> "none", pc |-> "NONE", state |-> "IDLE",
   steps |-> 0, ww |-> 16]

\* Reaction of the debug state d to a write of val in reg, on an IP that is
\* halted or not: a command starts the microcode, a write of W_DBG_BKPT enables
\* or disables the breakpoint it names, a write of W_DBG_STEPS makes a halted
\* IP run a number of opcodes or resume, and has no effect on a running one
HwDbgWrite(d, reg, val, halted) ==
  IF ~d.followed THEN d
  ELSE CASE reg = "W_CTRL" -> [d EXCEPT !.run = "free", !.steps = 0]
         [] reg = "W_DBG_BKPT" ->
              [d EXCEPT !.bkpt = IF val.en THEN @ \cup {val.id} ELSE @ \ {val.id}]
         [] reg = "W_DBG_STEPS" /\ halted ->
              [d EXCEPT !.run = IF val.resume THEN "free" ELSE "step"]
         [] OTHER -> d

\* Reaction of the side-channel configuration k to a write of val in the debug
\* register reg: the configuration registers keep the value written; an opcode
\* word goes to the address that W_DBG_OP_WADDR holds, the first word after the
\* address replaces the opcode and the second one completes it
HwAtkWrite(k, reg, val) ==
  IF ~k.followed THEN k
  ELSE CASE reg = "W_ATTACK_CFG_0" -> [k EXCEPT !.cfg0 = val]
         [] reg = "W_ATTACK_CFG_1" -> [k EXCEPT !.cfg1 = val]
         [] reg = "W_DBG_CFG_AXIMSK" -> [k EXCEPT !.aximsk = val]
         [] reg = "W_DBG_OP_WADDR" -> [k EXCEPT !.waddr = val, !.fresh = TRUE]
         [] reg = "W_DBG_OPCODE" ->
              IF k.waddr \in AttackPatchAddresses
                THEN [k EXCEPT !.fresh = FALSE,
                               !.iram[k.waddr] = IF k.fresh THEN <<val>> ELSE Append(@, val)]
                ELSE [k EXCEPT !.fresh = FALSE]
         [] OTHER -> k

\* Reaction of the IP to a write of val in register reg; pe is the set of
\* error bits that the operation so started will raise when it completes.
HwWrite(h, reg, val, pe) ==
  CASE reg = "W_SOFT_RESET" ->
         [h EXCEPT !.busy = TRUE, !.err = {}, !.pend = {}, !.rnd = FALSE,
                   !.sel = "none", !.cur = "none"]
    [] reg = "W_ERR_ACK" ->
         [h EXCEPT !.err = h.err \ val]
    [] reg = "W_CTRL" /\ val.kind \in Commands ->
         [h EXCEPT !.busy = TRUE, !.pend = h.pend \cup pe, !.sel = "none",
                   !.cur = val.kind, !.dbg = HwDbgWrite(h.dbg, reg, val, h.halted)]
    [] reg = "W_CTRL" /\ val.kind = "WRITE_NB" ->
         [h EXCEPT !.busy = TRUE, !.sel = HwSlot(val),
                   !.pend = h.pend \cup pe \cup
                     (IF val.scal /\ ~h.rnd THEN {IPECC_ERR_NOT_ENOUGH_RANDOM_WK} ELSE {})]
    [] reg = "W_CTRL" /\ val.kind = "READ_NB" ->
         [h EXCEPT !.busy = TRUE, !.pend = h.pend \cup pe, !.sel = "none"]
    [] reg = "W_WRITE_DATA" ->
         [h EXCEPT !.busy = TRUE,
                   !.pend = h.pend \cup pe \cup
                     (IF h.sel = "K" /\ ~h.rnd THEN {IPECC_ERR_NOT_ENOUGH_RANDOM_WK} ELSE {}),
                   !.cur = IF h.sel = "K" THEN "scalar" ELSE h.cur,
                   !.r0null = IF h.sel = "R0" THEN FALSE ELSE h.r0null,
                   !.r1null = IF h.sel = "R1" THEN FALSE ELSE h.r1null]
    [] reg = "W_R0_NULL" ->
         [h EXCEPT !.busy = TRUE, !.pend = h.pend \cup pe, !.r0null = (val = 1),
                   !.sel = "none"]
    [] reg = "W_R1_NULL" ->
         [h EXCEPT !.busy = TRUE, !.pend = h.pend \cup pe, !.r1null = (val = 1),
                   !.sel = "none"]
    [] reg \in DebugRegs ->
         \* a debug register: unknown to the IP in secure mode (error UNKNOWN_REG);
         \* the IP takes it whether busy or halted
         IF h.secure THEN [h EXCEPT !.err = h.err \cup {IPECC_ERR_UNKOWN_REG}]
         ELSE CASE reg = "W_DBG_HALT" -> [h EXCEPT !.halted = TRUE]
                [] reg = "W_DBG_STEPS" ->
                     [h EXCEPT !.halted = IF val.resume \/ h.dbg.followed THEN FALSE
                                          ELSE h.halted,
                               !.dbg = HwDbgWrite(h.dbg, reg, val, h.halted)]
                [] OTHER -> [h EXCEPT !.atk = HwAtkWrite(h.atk, reg, val),
                                      !.dbg = HwDbgWrite(h.dbg, reg, val, h.halted)]
    [] OTHER ->
         [h EXCEPT !.busy = TRUE, !.pend = h.pend \cup pe, !.sel = "none"]

\* Reaction of the IP to a read of R_READ_DATA
HwReadData(h, pe) == [h EXCEPT !.busy = TRUE, !.pend = h.pend \cup pe]

\* The operation in progress completes: busy falls, the errors it met show in
\* R_STATUS; a point operation leaves its result in R1 (r1z: it is the null
\* point), a scalar transfer has used the random gathered for it, unless the
\* IP keeps ENOUGH_RND_WK set once it has risen (sticky).
HwDone(h, r1z) ==
  [h EXCEPT !.busy = FALSE, !.err = h.err \cup h.pend, !.pend = {}, !.cur = "none",
            !.r1null = IF h.cur \in (Commands \ FlagCommands) THEN r1z ELSE h.r1null,
            !.rnd = IF h.cur = "scalar" /\ ~h.sticky THEN FALSE ELSE h.rnd]

----------------------------------------------------------------------------
(* Operations of the driver: constructors *)

OpBusyWait == [op |-> "busy_wait"]
OpSetReg(reg, val) == [op |-> "set_reg", reg |-> reg, val |-> val]
OpCheckError(at) == [op |-> "check_error", at |-> at]
OpReturn(v) == [op |-> "return", val |-> v]
OpFail == [op |-> "fail"]
OpCall(f) == [op |-> "call", f |-> f]
OpWriteBignum(src, reg) == [op |-> "call", f |-> "ip_ecc_write_bignum", src |-> src, reg |-> reg]
OpReadBignum(dst, reg) == [op |-> "call", f |-> "ip_ecc_read_bignum", dst |-> dst, reg |-> reg]
OpSelectReg(r, rw) == [op |-> "call", f |-> "ip_ecc_select_reg", r |-> r, rw |-> rw]
OpPushWord(w) == [op |-> "call", f |-> "ip_ecc_push_word", w |-> w]
OpExecCommand(cmd, flag, kp_time) ==
  [op |-> "call", f |-> "ip_ecc_exec_command", cmd |-> cmd, flag |-> flag, kp_time |-> kp_time]

\* the event a step leaves in the trace of the call
Event(reg, val, at) ==
  [reg |-> reg, val |-> val, at |-> at, gated |-> polled, rnd |-> rndSeen, slot |-> hw.sel]

----------------------------------------------------------------------------
(* Bodies of the driver's functions, as sequences of operations.  A body is *)
(* computed when the call reaches the head of prog, from the state then.    *)

\* ip_ecc_select_reg
C27_ip_ecc_select_reg_scal_by_index(r, rw) ==
  LET known == r \in {"A", "B", "P", "Q", "R0_X", "R0_Y", "R1_X", "R1_Y", "SCALAR", "TOKEN"}
      addr == CASE r = "A" -> IPECC_BNUM_A
                [] r = "B" -> IPECC_BNUM_B
                [] r = "P" -> IPECC_BNUM_P
                [] r = "Q" -> IPECC_BNUM_Q
                [] r = "R0_X" -> IPECC_BNUM_R0_X
                [] r = "R0_Y" -> IPECC_BNUM_R0_Y
                [] r = "R1_X" -> IPECC_BNUM_R1_X
                [] r = "R1_Y" -> IPECC_BNUM_R1_Y
                [] r = "SCALAR" -> IPECC_BNUM_K
                [] OTHER -> 0
      scal == IF addr = IPECC_BNUM_K /\ r # "TOKEN" THEN 1 ELSE 0
      token == IF r = "TOKEN" THEN 1 ELSE 0
  IN IF ~known THEN <<OpFail>>
     ELSE <<OpBusyWait>>
          \o (CASE rw = "READ" -> <<OpSetReg("W_CTRL", IPECC_SET_READ_ADDR(addr, token))>>
                [] rw = "WRITE" -> <<OpSetReg("W_CTRL", IPECC_SET_WRITE_ADDR(addr, scal))>>
                [] OTHER -> <<OpFail>>)
          \o <<OpBusyWait, OpCheckError("ip_ecc_select_reg")>>
ip_ecc_select_reg(r, rw) ==
  LET known == r \in {"A", "B", "P", "Q", "R0_X", "R0_Y", "R1_X", "R1_Y", "SCALAR", "TOKEN"}
      addr == CASE r = "A" -> IPECC_BNUM_A
                [] r = "B" -> IPECC_BNUM_B
                [] r = "P" -> IPECC_BNUM_P
                [] r = "Q" -> IPECC_BNUM_Q
                [] r = "R0_X" -> IPECC_BNUM_R0_X
                [] r = "R0_Y" -> IPECC_BNUM_R0_Y
                [] r = "R1_X" -> IPECC_BNUM_R1_X
                [] r = "R1_Y" -> IPECC_BNUM_R1_Y
                [] r = "SCALAR" -> IPECC_BNUM_K
                [] OTHER -> 0
      scal == IF r = "SCALAR" THEN 1 ELSE 0
      token == IF r = "TOKEN" THEN 1 ELSE 0
  IN IF ~known THEN <<OpFail>>
     ELSE <<OpBusyWait>>
          \o (CASE rw = "READ" -> <<OpSetReg("W_CTRL", IPECC_SET_READ_ADDR(addr, token))>>
                [] rw = "WRITE" -> <<OpSetReg("W_CTRL", IPECC_SET_WRITE_ADDR(addr, scal))>>
                [] OTHER -> <<OpFail>>)
          \o <<OpBusyWait, OpCheckError("ip_ecc_select_reg")>>

\* ip_ecc_push_word
C15_ip_ecc_push_word_nocheck(w) ==
  <<OpBusyWait, OpSetReg("W_WRITE_DATA", w), OpBusyWait>>
ip_ecc_push_word(w) ==
  <<OpBusyWait, OpSetReg("W_WRITE_DATA", w), OpBusyWait, OpCheckError("ip_ecc_push_word")>>

\* ip_ecc_pop_word
ip_ecc_pop_word ==
  <<OpBusyWait, [op |-> "read_data"], OpBusyWait, OpCheckError("ip_ecc_pop_word")>>

\* ip_ecc_write_bignum
C14_ip_ecc_write_bignum_short(a, reg) ==
  IF a.null THEN <<>>
  ELSE LET curr_word_sz == ip_ecc_nn_words_from_bytes_sz(a.sz)
           RECURSIVE Pushes(_)
           Pushes(k) == IF k >= curr_word_sz THEN <<>>
                        ELSE <<OpPushWord(FormatWord(a.bytes, a.sz, k))>> \o Pushes(k + 1)
       IN IF curr_word_sz > NnWords(hw) THEN <<OpFail>>
          ELSE (IF reg = "SCALAR" THEN <<[op |-> "rnd_wait"]>> ELSE <<>>)
               \o <<OpSelectReg(reg, "WRITE")>>
               \o Pushes(0)
ip_ecc_write_bignum(a, reg) ==
  IF a.null THEN <<>>
  ELSE LET a_sz == a.sz
           nn_size == NnWords(hw)
           curr_word_sz == ip_ecc_nn_words_from_bytes_sz(a_sz)
           RECURSIVE Pushes(_)
           Pushes(k) == IF k >= nn_size THEN <<>>
                        ELSE <<OpPushWord(FormatWord(a.bytes, a_sz, k))>> \o Pushes(k + 1)
       IN IF curr_word_sz > nn_size THEN <<OpFail>>
          ELSE (IF reg = "SCALAR" THEN <<[op |-> "rnd_wait"]>> ELSE <<>>)
               \o <<OpSelectReg(reg, "WRITE")>>
               \o Pushes(0)

\* ip_ecc_read_bignum, into the buffer named dst, a_sz bytes
C13_ip_ecc_read_bignum_nocheck(dst, a_sz, reg) ==
  LET RECURSIVE Pops(_)
      Pops(k) == IF k >= NnWords(hw) THEN <<>>
                 ELSE <<OpCall("ip_ecc_pop_word"),
                        [op |-> "scatter", dst |-> dst, k |-> k, a_sz |-> a_sz]>>
                      \o Pops(k + 1)
  IN IF dst = NULL THEN <<>> ELSE <<OpSelectReg(reg, "READ")>> \o Pops(0)
ip_ecc_read_bignum(dst, a_sz, reg) ==
  LET nn_size == NnWords(hw)
      curr_word_sz == ip_ecc_nn_words_from_bytes_sz(a_sz)
      RECURSIVE Pops(_)
      Pops(k) == IF k >= nn_size THEN <<>>
                 ELSE <<OpCall("ip_ecc_pop_word"),
                        [op |-> "scatter", dst |-> dst, k |-> k, a_sz |-> a_sz]>>
                      \o Pops(k + 1)
  IN IF dst = NULL THEN <<>>
     ELSE IF curr_word_sz > nn_size THEN <<OpFail>>
     ELSE <<OpSelectReg(reg, "READ")>> \o Pops(0)

\* ip_ecc_generate_token
ip_ecc_generate_token ==
  <<OpBusyWait, OpSetReg("W_TOKEN", 1), OpBusyWait, OpCheckError("ip_ecc_generate_token")>>

\* ip_ecc_get_token(token, nn_sz)
ip_ecc_get_token ==
  <<OpBusyWait, OpCall("ip_ecc_generate_token"), OpReadBignum("token", "TOKEN"),
    OpBusyWait, OpCheckError("ip_ecc_get_token")>>

\* ip_ecc_get_r0_inf, ip_ecc_get_r1_inf
ip_ecc_get_inf(idx) == <<OpBusyWait, [op |-> "get_inf", idx |-> idx]>>

\* ip_ecc_set_r0_inf, ip_ecc_set_r1_inf
C2_ip_ecc_set_inf_norestore(idx, val) ==
  <<OpBusyWait, OpBusyWait, OpCheckError("ip_ecc_set_inf")>>
ip_ecc_set_inf(idx, val) ==
  <<OpBusyWait>>
  \o (CASE val = 0 -> <<OpSetReg(IF idx = 0 THEN "W_R0_NULL" ELSE "W_R1_NULL", 0)>>
        [] val = 1 -> <<OpSetReg(IF idx = 0 THEN "W_R0_NULL" ELSE "W_R1_NULL", 1)>>
        [] OTHER -> <<OpFail>>)
  \o <<OpBusyWait, OpCheckError("ip_ecc_set_inf")>>

\* ip_ecc_exec_command (build without KP_TRACE and without KP_SET_ZMASK)
C10_ip_ecc_exec_command_flag_first(cmd, flag, kp_time) ==
  <<OpBusyWait, OpSetReg("W_CTRL", IPECC_EXEC_PT(cmd)), OpBusyWait>>
  \o (IF flag # NULL THEN <<[op |-> "get_flag"]>> ELSE <<>>)
  \o <<OpCheckError("ip_ecc_exec_command")>>
ip_ecc_exec_command(cmd, flag, kp_time) ==
  <<OpBusyWait>>
  \o (IF cmd \in Commands THEN <<OpSetReg("W_CTRL", IPECC_EXEC_PT(cmd))>> ELSE <<OpFail>>)
  \o <<OpBusyWait>>
  \o (IF kp_time # NULL THEN <<[op |-> "get_time"]>> ELSE <<>>)
  \o <<OpCheckError("ip_ecc_exec_command")>>
  \o (IF flag # NULL
        THEN (IF cmd \in FlagCommands THEN <<[op |-> "get_flag"]>> ELSE <<OpFail>>)
        ELSE <<>>)

\* IPECC_DISABLE_BLINDING writes 0; IPECC_SET_BLINDING_SIZE writes
\* IPECC_W_BLINDING_EN with the size, masked to 28 bits, from bit 4
IPECC_DISABLE_BLINDING == 0
IPECC_SET_BLINDING_SIZE(blinding_size) == 1 + (16 * (blinding_size % 268435456))

\* IPECC_ENABLE_ZREMASK: IPECC_W_ZREMASK_EN with the period, masked to 16 bits,
\* from bit 16
IPECC_ENABLE_ZREMASK(zremask_period) == 1 + (65536 * (zremask_period % 65536))

\* ip_ecc_enable_blinding_and_set_size
ip_ecc_enable_blinding_and_set_size(blinding_size) ==
  <<OpBusyWait,
    OpSetReg("W_BLINDING", IF blinding_size = 0 THEN IPECC_DISABLE_BLINDING
                           ELSE IPECC_SET_BLINDING_SIZE(blinding_size)),
    OpBusyWait, OpCheckError("ip_ecc_enable_blinding_and_set_size")>>

\* ip_ecc_enable_zremask_and_set_period: a period of 0 is logged, nothing is
\* written; the function goes on to its busy wait and its error check
ip_ecc_enable_zremask_and_set_period(period) ==
  <<OpBusyWait>>
  \o (IF period = 0 THEN <<>> ELSE <<OpSetReg("W_ZREMASK", IPECC_ENABLE_ZREMASK(period - 1))>>)
  \o <<OpBusyWait, OpCheckError("ip_ecc_enable_zremask_and_set_period")>>

\* ip_ecc_is_hw_unsecure
ip_ecc_is_hw_unsecure == <<OpBusyWait, [op |-> "read_cap"], OpBusyWait>>

\* driver_setup
C24_driver_setup_every_call ==
  <<[op |-> "hw_driver_setup"], OpSetReg("W_SOFT_RESET", 1),
    OpCall("ip_ecc_is_hw_unsecure"), OpCall("postproc_if_unsecure"),
    [op |-> "set_setup_state"]>>
driver_setup ==
  IF setup = 0
    THEN <<[op |-> "hw_driver_setup"], OpSetReg("W_SOFT_RESET", 1),
           OpCall("ip_ecc_is_hw_unsecure"), OpCall("postproc_if_unsecure"),
           [op |-> "set_setup_state"]>>
    ELSE <<>>

\* driver_setup, lines 5279-5282: ip_ecc_trng_postproc_enable when unsecure
postproc_if_unsecure ==
  IF loc.hw_unsecure THEN <<OpCall("ip_ecc_trng_postproc_enable")>> ELSE <<>>

\* what the caller of a function does when the function returns non-zero:
\* if (f()) goto err;   res |= f();   or nothing, f();
OnErr(onerr) ==
  CASE onerr = "goto" -> <<OpFail>>
    [] onerr = "res" -> <<[op |-> "or_res"]>>
    [] onerr = "ignore" -> <<>>

\* ge_pow_of_2: the value returned and the power of two stored in *pw
RECURSIVE GePow2From(_, _)
GePow2From(pw, i) == IF pw < i THEN GePow2From(2 * pw, i) ELSE pw
ge_pow_of_2(i) ==
  LET out_of_range ==   \* i > (0x1UL << 31)
        (i \div 2 > Pow2(30)) \/ (i \div 2 = Pow2(30) /\ i % 2 = 1)
  IN IF out_of_range THEN [ret |-> -1, pw |-> 1] ELSE [ret |-> 0, pw |-> GePow2From(1, i)]

\* ip_ecc_debug_halt
ip_ecc_debug_halt == <<OpSetReg("W_DBG_HALT", 1)>>

\* ip_ecc_set_breakpoint: IPECC_SET_BREAKPOINT(id, addr)
C20_ip_ecc_set_breakpoint_wait(addr, id) ==
  <<OpBusyWait, OpSetReg("W_DBG_BKPT", IPECC_SET_BKPT(id, addr, 0, "ANY_OR_IDLE"))>>
ip_ecc_set_breakpoint(addr, id) ==
  <<OpSetReg("W_DBG_BKPT", IPECC_SET_BKPT(id, addr, 0, "ANY_OR_IDLE"))>>

\* ip_ecc_remove_breakpoint
ip_ecc_remove_breakpoint(id) == <<OpSetReg("W_DBG_BKPT", IPECC_REMOVE_BREAKPOINT(id))>>

\* ip_ecc_run_opcodes
C19_ip_ecc_run_opcodes_unchecked(nbops) ==
  <<OpSetReg("W_DBG_STEPS", IPECC_RUN_OPCODES(nbops))>>
ip_ecc_run_opcodes(nbops) ==
  IF ~IPECC_IS_IP_DEBUG_HALTED(hw) THEN <<OpFail>>
  ELSE <<OpSetReg("W_DBG_STEPS", IPECC_RUN_OPCODES(nbops))>>

\* ip_ecc_single_step
ip_ecc_single_step ==
  IF ~IPECC_IS_IP_DEBUG_HALTED(hw) THEN <<OpFail>>
  ELSE <<OpSetReg("W_DBG_STEPS", IPECC_RUN_OPCODES(1))>>

\* ip_ecc_resume
ip_ecc_resume == <<OpSetReg("W_DBG_STEPS", IPECC_RESUME)>>

\* ip_ecc_patch_one_opcode; IPECC_W_DBG_OPCODE_MSK keeps all 32 bits of an opcode
ip_ecc_patch_one_opcode(address, opcode_msb, opcode_lsb, opsz, onerr) ==
  LET p == ge_pow_of_2(IPECC_GET_NBOPCODES(hw))
  IN IF (~IPECC_IS_IP_DEBUG_HALTED(hw)) /\ IPECC_IS_IP_BUSY(hw) THEN OnErr(onerr)
     ELSE IF opsz # 1 /\ opsz # 2 THEN OnErr(onerr)
     ELSE IF p.ret # 0 THEN OnErr(onerr)
     ELSE IF address > p.pw THEN OnErr(onerr)
     ELSE <<OpSetReg("W_DBG_OP_WADDR", address % 65536)>>
          \o (IF opsz = 2
                THEN <<OpSetReg("W_DBG_OPCODE", opcode_lsb), OpBusyWait,
                       OpSetReg("W_DBG_OPCODE", opcode_msb)>>
                ELSE <<OpSetReg("W_DBG_OPCODE", opcode_lsb)>>)

\* ip_ecc_patch_microcode; buf[j] of the C code is buf[j + 1] here
ip_ecc_patch_microcode(buf, nbops, opsz) ==
  LET p == ge_pow_of_2(IPECC_GET_NBOPCODES(hw))
      RECURSIVE Writes(_)
      Writes(i) ==
        IF i >= nbops THEN <<>>
        ELSE <<OpSetReg("W_DBG_OP_WADDR", i % 65536)>>
             \o (IF opsz = 2
                   THEN <<OpSetReg("W_DBG_OPCODE", buf[(2 * i) + 2]),
                          OpSetReg("W_DBG_OPCODE", buf[(2 * i) + 1])>>
                   ELSE <<OpSetReg("W_DBG_OPCODE", buf[i + 1])>>)
             \o Writes(i + 1)
  IN IF (~IPECC_IS_IP_DEBUG_HALTED(hw)) /\ IPECC_IS_IP_BUSY(hw) THEN <<OpFail>>
     ELSE IF opsz # 1 /\ opsz # 2 THEN <<OpFail>>
     ELSE IF p.ret # 0 THEN <<OpFail>>
     ELSE IF nbops > p.pw THEN <<OpFail>>
     ELSE Writes(0)

\* ip_ecc_configure_trng
ip_ecc_configure_trng(debias, ta, cycles) ==
  <<OpSetReg("W_DBG_TRNG_CFG", IPECC_TRNG_CONFIG(debias, ta, cycles))>>

\* ip_ecc_reset_trng_raw_fifo: IPECC_W_DBG_TRNG_RESET_FIFO_RAW is bit 0
ip_ecc_reset_trng_raw_fifo == <<OpSetReg("W_DBG_TRNG_RESET", Pow2(0))>>

\* ip_ecc_reset_trng_irn_fifos: IPECC_W_DBG_TRNG_RESET_FIFO_IRN is bit 4
ip_ecc_reset_trng_irn_fifos == <<OpSetReg("W_DBG_TRNG_RESET", Pow2(4))>>

\* ip_ecc_trng_postproc_disable: IPECC_TRNG_DISABLE_POSTPROC
ip_ecc_trng_postproc_disable == <<OpSetReg("W_DBG_TRNG_CTRL_POSTP", Pow2(0))>>

\* ip_ecc_trng_postproc_enable: IPECC_TRNG_ENABLE_POSTPROC
ip_ecc_trng_postproc_enable == <<OpSetReg("W_DBG_TRNG_CTRL_POSTP", 0)>>

\* ip_ecc_bypass_full_trng
ip_ecc_bypass_full_trng(instead_bit) ==
  IF instead_bit # 0 /\ instead_bit # 1 THEN <<OpFail>>
  ELSE <<OpSetReg("W_DBG_TRNG_CTRL_BYPASS", IPECC_TRNG_COMPLETE_BYPASS(instead_bit))>>

\* ip_ecc_dont_bypass_trng: IPECC_TRNG_UNDO_COMPLETE_BYPASS
ip_ecc_dont_bypass_trng ==
  <<OpSetReg("W_DBG_TRNG_CTRL_BYPASS", [bypass |-> FALSE, val |-> 0])>>

\* ip_ecc_trng_nnrnd_deterministic
ip_ecc_trng_nnrnd_deterministic == <<OpSetReg("W_DBG_TRNG_CTRL_NNRND", 1)>>

\* ip_ecc_trng_nnrnd_not_deterministic
ip_ecc_trng_nnrnd_not_deterministic == <<OpSetReg("W_DBG_TRNG_CTRL_NNRND", 0)>>

\* ip_ecc_select_trng_diag_source: IPECC_TRNG_SELECT_DIAG_ID(id)
ip_ecc_select_trng_diag_source(id) == <<OpSetReg("W_DBG_TRNG_CTRL_DIAG", id % 8)>>

\* ip_ecc_read_one_raw_random_bit: IPECC_TRNG_READ_FIFO_RAW(addr, rawbit)
ip_ecc_read_one_raw_random_bit(addr) ==
  <<OpSetReg("W_DBG_TRNG_RAW_READ", IPECC_TRNG_SET_RAW_BIT_ADDR(addr)),
    [op |-> "dbg_read", reg |-> "R_DBG_TRNG_RAW_DATA"]>>

\* ip_ecc_get_trng_raw_fifo_filling_time
ip_ecc_get_trng_raw_fifo_filling_time ==
  <<OpSetReg("W_DBG_TRNG_CTRL_POSTP", Pow2(0)),
    OpSetReg("W_DBG_TRNG_RESET", Pow2(0)),
    [op |-> "fifo_full_wait"],
    [op |-> "dbg_read", reg |-> "R_DBG_TRNG_RAWDUR"],
    OpSetReg("W_DBG_TRNG_CTRL_POSTP", 0)>>

\* ip_ecc_get_trng_raw_fifo_state
ip_ecc_get_trng_raw_fifo_state ==
  <<[op |-> "dbg_read", reg |-> "R_DBG_TRNG_STATUS"],
    [op |-> "dbg_read", reg |-> "R_DBG_TRNG_STATUS"]>>

\* ip_ecc_get_content_of_trng_raw_random_fifo
ip_ecc_get_content_of_trng_raw_random_fifo ==
  LET qty == IPECC_GET_TRNG_RAW_FIFO_WRITE_POINTER(hw)
      RECURSIVE Bits(_)
      Bits(i) ==
        IF i >= qty THEN <<>>
        ELSE <<OpSetReg("W_DBG_TRNG_RAW_READ", IPECC_TRNG_SET_RAW_BIT_ADDR(i)),
               [op |-> "dbg_read", reg |-> "R_DBG_TRNG_RAW_DATA"]>>
             \o Bits(i + 1)
  IN <<OpSetReg("W_DBG_TRNG_CTRL_POSTP", Pow2(4)),
       [op |-> "dbg_read", reg |-> "R_DBG_CAPABILITIES_2"],
       [op |-> "dbg_read", reg |-> "R_DBG_TRNG_STATUS"]>>
     \o Bits(0)
     \o <<OpSetReg("W_DBG_TRNG_CTRL_POSTP", 0)>>

\* ip_ecc_get_trng_diag_axi, _efp, _crv, _shf, _raw: the source id selects
ip_ecc_get_trng_diag(id) ==
  <<OpSetReg("W_DBG_TRNG_CTRL_DIAG", id % 8),
    [op |-> "dbg_read", reg |-> "R_DBG_TRNG_DIAG_MIN"],
    [op |-> "dbg_read", reg |-> "R_DBG_TRNG_DIAG_MAX"],
    [op |-> "dbg_read", reg |-> "R_DBG_TRNG_DIAG_OK"],
    [op |-> "dbg_read", reg |-> "R_DBG_TRNG_DIAG_STARV"]>>

\* ip_ecc_get_trng_diagnostics
ip_ecc_get_trng_diagnostics ==
  ip_ecc_get_trng_diag(0) \o ip_ecc_get_trng_diag(1) \o ip_ecc_get_trng_diag(2)
  \o (IF IPECC_IS_SHUFFLING_SUPPORTED(hw) THEN ip_ecc_get_trng_diag(3) ELSE <<>>)
  \o ip_ecc_get_trng_diag(4)

\* ip_ecc_enable_xyshuf: IPECC_W_DBG_CFG_XYSHUF_EN is 1
ip_ecc_enable_xyshuf == <<OpSetReg("W_DBG_CFG_XYSHUF", 1)>>

\* ip_ecc_enable_aximsk: IPECC_W_DBG_CFG_AXIMSK_EN is 1
ip_ecc_enable_aximsk(onerr) ==
  IF (~IPECC_IS_IP_DEBUG_HALTED(hw)) /\ IPECC_IS_IP_BUSY(hw) THEN OnErr(onerr)
  ELSE <<OpSetReg("W_DBG_CFG_AXIMSK", 1)>>

\* ip_ecc_disable_aximsk: IPECC_W_DBG_CFG_AXIMSK_DIS is 0
ip_ecc_disable_aximsk(onerr) ==
  IF (~IPECC_IS_IP_DEBUG_HALTED(hw)) /\ IPECC_IS_IP_BUSY(hw) THEN OnErr(onerr)
  ELSE <<OpSetReg("W_DBG_CFG_AXIMSK", 0)>>

\* ip_ecc_attack_set_cfg_0
ip_ecc_attack_set_cfg_0(naive, nocollisioncr, onerr) ==
  IF (~IPECC_IS_IP_DEBUG_HALTED(hw)) /\ IPECC_IS_IP_BUSY(hw) THEN OnErr(onerr)
  ELSE <<OpSetReg("W_ATTACK_CFG_0", IPECC_ATTACK_SET_HW_CFG(naive, nocollisioncr))>>

\* ip_ecc_attack_enable_nnrndsf
ip_ecc_attack_enable_nnrndsf(onerr) ==
  IF (~IPECC_IS_IP_DEBUG_HALTED(hw)) /\ IPECC_IS_IP_BUSY(hw) THEN OnErr(onerr)
  ELSE <<OpSetReg("W_ATTACK_CFG_1", 0)>>

\* ip_ecc_attack_disable_nnrndsf: IPECC_W_ATK_NO_NNRND_SF is bit 0
ip_ecc_attack_disable_nnrndsf(onerr) ==
  IF (~IPECC_IS_IP_DEBUG_HALTED(hw)) /\ IPECC_IS_IP_BUSY(hw) THEN OnErr(onerr)
  ELSE <<OpSetReg("W_ATTACK_CFG_1", Pow2(0))>>

(* The traced [k]P (build with KP_TRACE, without TERM_CTRL_AND_COLORS).  A *)
(* line of the trace is modelled by its length; the lengths are those of the *)
(* format strings, "\n" and "\r" being one character each. *)

\* kp_trace_msg_append(ktrc, fmt, ...) for a line of len characters
OpAppend(len) == [op |-> "trace_append", len |-> len]

\* ip_debug_read_all_limbs(lgnb, nbbuf)
OpReadAllLimbs(lgnb) == [op |-> "read_all_limbs", lgnb |-> lgnb]

\* str_ipecc_state: length of the name of a state of the main FSM
StateNameLen(state) ==
  CASE state = "CHECKONCURVE" -> 12
    [] state = "EXIT" -> 4
    [] OTHER -> 5

\* length of "PC=%s0x%03x%s (%s%s%s)\n\r": KGRN, KNRM and KYEL are empty
PcLineLen(state) == 13 + StateNameLen(state)

\* IPECC_DBG_GET_W: the number of limbs of a large number
IPECC_DBG_GET_W(h) == DIV(ip_ecc_get_nn_bit_size(h) + 4, h.dbg.ww)

\* if (ktrc->msgsz > ktrc->msgsz_max - 32), in uint32_t arithmetic: under 32,
\* msgsz_max - 32 wraps to a value of at least 0xffffffe0, that no msgsz of
\* the model exceeds
AboutToReachMax(msgsz, msgsz_max) ==
  IF msgsz_max >= 32 THEN msgsz > msgsz_max - 32 ELSE FALSE

\* kp_trace_msg_append: the trace k after a line of len characters
kp_trace_msg_append(k, len) ==
  IF ~k.overflow
    THEN LET msgsz == k.msgsz + len
         IN IF AboutToReachMax(msgsz, k.msgsz_max)
              THEN [k EXCEPT !.msgsz = msgsz, !.overflow = TRUE, !.warnings = @ + 1]
              ELSE [k EXCEPT !.msgsz = msgsz]
    ELSE k

\* print_all_limbs_of_number(ktrc, msg, nb), msg of len characters: each limb
\* is printed on DIV(ww, 4) characters
print_all_limbs_of_number(len) ==
  <<OpAppend(len)>>
  \o [i \in 1..IPECC_DBG_GET_W(hw) |-> OpAppend(DIV(hw.dbg.ww, 4))]

\* ip_read_and_print_xyr1
ip_read_and_print_xyr1 ==
  <<OpReadAllLimbs("XR1"), OpReadAllLimbs("YR1")>>
  \o print_all_limbs_of_number(33)
  \o (IF loc.r1z THEN <<OpAppend(11)>> ELSE <<>>) \o <<OpAppend(2)>>
  \o print_all_limbs_of_number(33)
  \o (IF loc.r1z THEN <<OpAppend(11)>> ELSE <<>>) \o <<OpAppend(2)>>

\* kp_debug_trace: switch (dbgpc), for the addresses the IP of the model halts on
kp_debug_trace_switch ==
  CASE loc.dbgpc = "EXIT_OP1" /\ loc.dbgstate = "EXIT" ->
         <<OpAppend(PcLineLen(loc.dbgstate)), OpAppend(104)>> \o ip_read_and_print_xyr1
    [] loc.dbgpc = "CHKCURVE_OPLAST" /\ loc.dbgstate = "EXIT" ->
         <<OpAppend(PcLineLen(loc.dbgstate)), OpAppend(100)>> \o ip_read_and_print_xyr1
    [] OTHER -> <<>>

\* kp_debug_trace: one turn of the step-by-step loop
C23_kp_debug_trace_step_no_poll ==
  <<OpSetReg("W_DBG_STEPS", IPECC_RUN_OPCODES(1)),
    [op |-> "get_pc_state", step |-> TRUE], [op |-> "get_exp_flags"],
    OpCall("kp_debug_trace_switch"), [op |-> "loop_test"]>>
kp_debug_trace_step ==
  <<OpSetReg("W_DBG_STEPS", IPECC_RUN_OPCODES(1)), [op |-> "poll_halted"],
    [op |-> "get_pc_state", step |-> TRUE], [op |-> "get_exp_flags"],
    OpCall("kp_debug_trace_switch"), [op |-> "loop_test"]>>

\* the value IPECC_SET_BREAKPOINT(0, DEBUG_ECC_IRAM_CHKCURVE_OP1_ADDR) writes
KpBreakpoint ==
  [en |-> TRUE, id |-> 0, addr |-> "CHKCURVE_OP1", nbbit |-> 0, state |-> "ANY_OR_IDLE"]

\* kp_debug_trace
kp_debug_trace ==
  IF ktrc.null THEN <<OpFail>>
  ELSE <<OpAppend(46), OpSetReg("W_DBG_BKPT", KpBreakpoint),
         OpAppend(14), OpSetReg("W_CTRL", IPECC_EXEC_PT("PT_KP")),
         OpAppend(26), [op |-> "poll_halted"],
         OpAppend(14), [op |-> "get_pc_state", step |-> FALSE],
         [op |-> "check_break"],
         OpAppend(33), OpCall("kp_debug_trace_step"),
         [op |-> "append_steps"],
         OpAppend(33), OpSetReg("W_DBG_BKPT", IPECC_REMOVE_BREAKPOINT(0)),
         OpSetReg("W_DBG_STEPS", IPECC_RESUME)>>

\* Body of the function that the call operation o names
Body(o) ==
  CASE o.f = "driver_setup" -> driver_setup
    [] o.f = "postproc_if_unsecure" -> postproc_if_unsecure
    [] o.f = "kp_debug_trace" -> kp_debug_trace
    [] o.f = "kp_debug_trace_step" -> kp_debug_trace_step
    [] o.f = "kp_debug_trace_switch" -> kp_debug_trace_switch
    [] o.f = "ip_ecc_is_hw_unsecure" -> ip_ecc_is_hw_unsecure
    [] o.f = "ip_ecc_get_r0_inf" -> ip_ecc_get_inf(0)
    [] o.f = "ip_ecc_get_r1_inf" -> ip_ecc_get_inf(1)
    [] o.f = "ip_ecc_set_r0_inf" -> ip_ecc_set_inf(0, loc.inf_r0)
    [] o.f = "ip_ecc_set_r1_inf" -> ip_ecc_set_inf(1, loc.inf_r1)
    [] o.f = "ip_ecc_write_bignum" -> ip_ecc_write_bignum(api[o.src], o.reg)
    [] o.f = "ip_ecc_read_bignum" ->
         ip_ecc_read_bignum(o.dst,
                            CASE o.dst = "token" -> loc.nn_sz
                              [] o.dst = "out_x" -> mem.out_x_sz
                              [] o.dst = "out_y" -> mem.out_y_sz
                              [] o.dst = NULL -> api.out_sz,
                            o.reg)
    [] o.f = "ip_ecc_select_reg" -> ip_ecc_select_reg(o.r, o.rw)
    [] o.f = "ip_ecc_push_word" -> ip_ecc_push_word(o.w)
    [] o.f = "ip_ecc_pop_word" -> ip_ecc_pop_word
    [] o.f = "ip_ecc_generate_token" -> ip_ecc_generate_token
    [] o.f = "ip_ecc_get_token" -> ip_ecc_get_token
    [] o.f = "ip_ecc_exec_command" -> ip_ecc_exec_command(o.cmd, o.flag, o.kp_time)
    [] o.f = "ip_ecc_debug_halt" -> ip_ecc_debug_halt
    [] o.f = "ip_ecc_set_breakpoint" -> ip_ecc_set_breakpoint(api.addr, api.id)
    [] o.f = "ip_ecc_remove_breakpoint" -> ip_ecc_remove_breakpoint(api.id)
    [] o.f = "ip_ecc_run_opcodes" -> ip_ecc_run_opcodes(api.nbops)
    [] o.f = "ip_ecc_single_step" -> ip_ecc_single_step
    [] o.f = "ip_ecc_resume" -> ip_ecc_resume
    [] o.f = "ip_ecc_patch_one_opcode" ->
         ip_ecc_patch_one_opcode(o.address, o.opcode_msb, o.opcode_lsb, o.opsz, o.onerr)
    [] o.f = "ip_ecc_patch_microcode" -> ip_ecc_patch_microcode(api.buf, api.nbops, api.opsz)
    [] o.f = "ip_ecc_configure_trng" -> ip_ecc_configure_trng(api.debias, api.ta, api.cycles)
    [] o.f = "ip_ecc_reset_trng_raw_fifo" -> ip_ecc_reset_trng_raw_fifo
    [] o.f = "ip_ecc_reset_trng_irn_fifos" -> ip_ecc_reset_trng_irn_fifos
    [] o.f = "ip_ecc_trng_postproc_disable" -> ip_ecc_trng_postproc_disable
    [] o.f = "ip_ecc_trng_postproc_enable" -> ip_ecc_trng_postproc_enable
    [] o.f = "ip_ecc_bypass_full_trng" -> ip_ecc_bypass_full_trng(api.instead_bit)
    [] o.f = "ip_ecc_dont_bypass_trng" -> ip_ecc_dont_bypass_trng
    [] o.f = "ip_ecc_trng_nnrnd_deterministic" -> ip_ecc_trng_nnrnd_deterministic
    [] o.f = "ip_ecc_trng_nnrnd_not_deterministic" -> ip_ecc_trng_nnrnd_not_deterministic
    [] o.f = "ip_ecc_select_trng_diag_source" -> ip_ecc_select_trng_diag_source(api.id)
    [] o.f = "ip_ecc_read_one_raw_random_bit" -> ip_ecc_read_one_raw_random_bit(api.addr)
    [] o.f = "ip_ecc_get_trng_raw_fifo_filling_time" -> ip_ecc_get_trng_raw_fifo_filling_time
    [] o.f = "ip_ecc_get_trng_raw_fifo_state" -> ip_ecc_get_trng_raw_fifo_state
    [] o.f = "ip_ecc_get_content_of_trng_raw_random_fifo" ->
         ip_ecc_get_content_of_trng_raw_random_fifo
    [] o.f = "ip_ecc_get_trng_diagnostics" -> ip_ecc_get_trng_diagnostics
    [] o.f = "ip_ecc_disable_aximsk" -> ip_ecc_disable_aximsk(o.onerr)
    [] o.f = "ip_ecc_enable_aximsk" -> ip_ecc_enable_aximsk(o.onerr)
    [] o.f = "ip_ecc_enable_xyshuf" -> ip_ecc_enable_xyshuf
    [] o.f = "ip_ecc_enable_blinding_and_set_size" ->
         ip_ecc_enable_blinding_and_set_size(o.blinding_size)
    [] o.f = "ip_ecc_enable_zremask_and_set_period" ->
         ip_ecc_enable_zremask_and_set_period(o.period)
    [] o.f = "ip_ecc_attack_set_cfg_0" ->
         ip_ecc_attack_set_cfg_0(o.naive, o.nocollisioncr, o.onerr)
    [] o.f = "ip_ecc_attack_enable_nnrndsf" -> ip_ecc_attack_enable_nnrndsf(o.onerr)
    [] o.f = "ip_ecc_attack_disable_nnrndsf" -> ip_ecc_attack_disable_nnrndsf(o.onerr)

----------------------------------------------------------------------------
(* The exported functions *)

SaveInf == <<OpCall("ip_ecc_get_r0_inf"), OpCall("ip_ecc_get_r1_inf")>>
RestoreInf == <<OpCall("ip_ecc_set_r0_inf"), OpCall("ip_ecc_set_r1_inf")>>
WriteR0 == <<OpWriteBignum("x", "R0_X"), OpWriteBignum("y", "R0_Y")>>
WriteR1 == <<OpWriteBignum("x2", "R1_X"), OpWriteBignum("y2", "R1_Y")>>
ReadResult ==
  <<[op |-> "out_size_check"], OpReadBignum("out_x", "R1_X"), OpReadBignum("out_y", "R1_Y")>>

hw_driver_is_on_curve(a) ==
  <<OpCall("driver_setup")>> \o SaveInf \o WriteR0 \o RestoreInf
  \o <<OpExecCommand("PT_CHK", a.flag, NULL), OpReturn(0)>>

hw_driver_eq(a) ==
  <<OpCall("driver_setup")>> \o SaveInf \o WriteR0 \o WriteR1 \o RestoreInf
  \o <<OpExecCommand("PT_EQU", a.flag, NULL), OpReturn(0)>>

hw_driver_opp(a) ==
  <<OpCall("driver_setup")>> \o SaveInf \o WriteR0 \o WriteR1 \o RestoreInf
  \o <<OpExecCommand("PT_OPP", a.flag, NULL), OpReturn(0)>>

hw_driver_neg(a) ==
  <<OpCall("driver_setup")>> \o SaveInf \o WriteR0 \o RestoreInf
  \o <<OpExecCommand("PT_NEG", NULL, NULL), [op |-> "get_nn_sz", limit |-> FALSE]>>
  \o ReadResult \o <<OpReturn(0)>>

hw_driver_dbl(a) ==
  <<OpCall("driver_setup")>> \o SaveInf \o WriteR0 \o RestoreInf
  \o <<OpExecCommand("PT_DBL", NULL, NULL), [op |-> "get_nn_sz", limit |-> FALSE]>>
  \o ReadResult \o <<OpReturn(0)>>

hw_driver_add(a) ==
  <<OpCall("driver_setup")>> \o SaveInf \o WriteR0 \o WriteR1 \o RestoreInf
  \o <<OpExecCommand("PT_ADD", NULL, NULL), [op |-> "get_nn_sz", limit |-> FALSE]>>
  \o ReadResult \o <<OpReturn(0)>>

C7_hw_driver_mul_scalar_first(a) ==
  <<OpCall("driver_setup"), [op |-> "get_nn_sz", limit |-> TRUE]>>
  \o SaveInf
  \o <<OpWriteBignum("scalar", "SCALAR"), OpCall("ip_ecc_get_token"),
       OpWriteBignum("x", "R1_X"), OpWriteBignum("y", "R1_Y")>>
  \o RestoreInf
  \o <<OpExecCommand("PT_KP", NULL, a.kp_time)>>
  \o ReadResult
  \o <<[op |-> "unmask", dst |-> "out_x"], [op |-> "unmask", dst |-> "out_y"],
       [op |-> "clear_token"], OpReturn(0)>>
hw_driver_mul(a) ==
  <<OpCall("driver_setup"), [op |-> "get_nn_sz", limit |-> TRUE]>>
  \o SaveInf
  \o <<OpCall("ip_ecc_get_token"),
       OpWriteBignum("scalar", "SCALAR"), OpWriteBignum("x", "R1_X"), OpWriteBignum("y", "R1_Y")>>
  \o RestoreInf
  \o <<OpExecCommand("PT_KP", NULL, a.kp_time)>>
  \o ReadResult
  \o <<[op |-> "unmask", dst |-> "out_x"], [op |-> "unmask", dst |-> "out_y"],
       [op |-> "clear_token"], OpReturn(0)>>

hw_driver_set_small_scalar_size(a) ==
  <<OpCall("driver_setup"), OpSetReg("W_SMALL_SCALAR", a.bit_sz), OpReturn(0)>>

hw_driver_enable_blinding_and_set_size(a) ==
  <<OpCall("driver_setup"),
    [op |-> "call", f |-> "ip_ecc_enable_blinding_and_set_size",
     blinding_size |-> a.blinding_size],
    OpReturn(0)>>

hw_driver_enable_zremask_and_set_period(a) ==
  <<OpCall("driver_setup"),
    [op |-> "call", f |-> "ip_ecc_enable_zremask_and_set_period", period |-> a.period],
    OpReturn(0)>>

(* The exported functions of the debug surface.  Each one sets the driver up, *)
(* reads the capability register, and calls one function of the low layer. *)

OpSecureCheck == [op |-> "secure_check"]

\* hw_driver_reset
hw_driver_reset == <<OpSetReg("W_SOFT_RESET", 1), OpReturn(0)>>

hw_driver_halt_DBG ==
  <<OpCall("driver_setup"), OpSecureCheck, OpCall("ip_ecc_debug_halt"), OpReturn(0)>>

hw_driver_set_breakpoint_DBG ==
  <<OpCall("driver_setup"), OpSecureCheck, OpCall("ip_ecc_set_breakpoint"), OpReturn(0)>>

hw_driver_remove_breakpoint_DBG ==
  <<OpCall("driver_setup"), OpSecureCheck, OpCall("ip_ecc_remove_breakpoint"), OpReturn(0)>>

hw_driver_run_opcodes_DBG ==
  <<OpCall("driver_setup"), OpSecureCheck, OpCall("ip_ecc_run_opcodes"), OpReturn(0)>>

hw_driver_single_step_DBG ==
  <<OpCall("driver_setup"), OpSecureCheck, OpCall("ip_ecc_single_step"), OpReturn(0)>>

hw_driver_resume_DBG ==
  <<OpCall("driver_setup"), OpSecureCheck, OpCall("ip_ecc_resume"), OpReturn(0)>>

hw_driver_patch_microcode_DBG ==
  <<OpCall("driver_setup"), OpSecureCheck, OpCall("ip_ecc_patch_microcode"), OpReturn(0)>>

hw_driver_configure_trng_DBG ==
  <<OpCall("driver_setup"), OpSecureCheck, OpCall("ip_ecc_configure_trng"), OpReturn(0)>>

hw_driver_reset_trng_raw_fifo_DBG ==
  <<OpCall("driver_setup"), OpSecureCheck, OpCall("ip_ecc_reset_trng_raw_fifo"), OpReturn(0)>>

hw_driver_reset_trng_irn_fifos_DBG ==
  <<OpCall("driver_setup"), OpSecureCheck, OpCall("ip_ecc_reset_trng_irn_fifos"), OpReturn(0)>>

hw_driver_trng_post_proc_disable_DBG ==
  <<OpCall("driver_setup"), OpSecureCheck, OpCall("ip_ecc_trng_postproc_disable"), OpReturn(0)>>

hw_driver_trng_post_proc_enable_DBG ==
  <<OpCall("driver_setup"), OpSecureCheck, OpCall("ip_ecc_trng_postproc_enable"), OpReturn(0)>>

hw_driver_enable_xyshuf ==
  <<OpCall("driver_setup"), OpCall("ip_ecc_enable_xyshuf"), OpReturn(0)>>

hw_driver_enable_aximsk ==
  <<OpCall("driver_setup"), [op |-> "call", f |-> "ip_ecc_enable_aximsk", onerr |-> "goto"],
    OpReturn(0)>>

hw_driver_disable_aximsk_DBG ==
  <<OpCall("driver_setup"), [op |-> "call", f |-> "ip_ecc_disable_aximsk", onerr |-> "goto"],
    OpReturn(0)>>

hw_driver_bypass_full_trng_DBG ==
  <<OpCall("driver_setup"), OpSecureCheck, OpCall("ip_ecc_bypass_full_trng"), OpReturn(0)>>

hw_driver_dont_bypass_trng_DBG ==
  <<OpCall("driver_setup"), OpSecureCheck, OpCall("ip_ecc_dont_bypass_trng"), OpReturn(0)>>

hw_driver_nnrnd_deterministic_DBG ==
  <<OpCall("driver_setup"), OpSecureCheck, OpCall("ip_ecc_trng_nnrnd_deterministic"), OpReturn(0)>>

hw_driver_nnrnd_not_deterministic_DBG ==
  <<OpCall("driver_setup"), OpSecureCheck, OpCall("ip_ecc_trng_nnrnd_not_deterministic"), OpReturn(0)>>

hw_driver_select_trng_diag_source_DBG ==
  <<OpCall("driver_setup"), OpSecureCheck, OpCall("ip_ecc_select_trng_diag_source"), OpReturn(0)>>

hw_driver_read_one_raw_random_bit_DBG ==
  <<OpCall("driver_setup"), OpSecureCheck, OpCall("ip_ecc_read_one_raw_random_bit"), OpReturn(0)>>

hw_driver_get_trng_raw_fifo_filling_time_DBG ==
  <<OpCall("driver_setup"), OpSecureCheck, OpCall("ip_ecc_get_trng_raw_fifo_filling_time"), OpReturn(0)>>

hw_driver_get_trng_raw_fifo_state_DBG ==
  <<OpCall("driver_setup"), OpSecureCheck, OpCall("ip_ecc_get_trng_raw_fifo_state"), OpReturn(0)>>

hw_driver_get_content_of_trng_raw_random_fifo_DBG ==
  <<OpCall("driver_setup"), OpSecureCheck, OpCall("ip_ecc_get_content_of_trng_raw_random_fifo"), OpReturn(0)>>

hw_driver_get_trng_diagnostics_DBG ==
  <<OpCall("driver_setup"), OpSecureCheck, OpCall("ip_ecc_get_trng_diagnostics"), OpReturn(0)>>

\* the value returned by ip_ecc_patch_one_opcode is not looked at
hw_driver_patch_one_opcode_DBG(a) ==
  <<OpCall("driver_setup"), OpSecureCheck,
    [op |-> "call", f |-> "ip_ecc_patch_one_opcode", address |-> a.address,
     opcode_msb |-> a.opcode_msb, opcode_lsb |-> a.opcode_lsb, opsz |-> a.opsz,
     onerr |-> "ignore"],
    OpReturn(0)>>

hw_driver_attack_set_level(a) ==
  LET Patch(address, opcode) ==
        [op |-> "call", f |-> "ip_ecc_patch_one_opcode", address |-> address,
         opcode_msb |-> 0, opcode_lsb |-> opcode, opsz |-> 1, onerr |-> "res"]
      Cfg0(naive, nocollisioncr) ==
        [op |-> "call", f |-> "ip_ecc_attack_set_cfg_0", naive |-> naive,
         nocollisioncr |-> nocollisioncr, onerr |-> "res"]
      Res(f) == [op |-> "call", f |-> f, onerr |-> "res"]
      \* 0x21000000 + ECC_IRAM_ZDBL_NOT_ALWAYS_ADDR, 0x26000000 + DEBUG_ECC_IRAM_DOZDBL_ADDR
      jump0 == 553648128 + ECC_IRAM_ZDBL_NOT_ALWAYS_ADDR
      jumpop == 637534208 + DEBUG_ECC_IRAM_DOZDBL_ADDR
      PatchClear ==   \* NNCLR phi0, NNCLR phi1, TESTPARs, NOP, JL .dozdblL
        <<Patch(DEBUG_ECC_IRAM_RANDOM_PHI0_ADDR, 1358987242),
          Patch(DEBUG_ECC_IRAM_RANDOM_PHI1_ADDR, 1358987243),
          Patch(DEBUG_ECC_IRAM_SAMPLE0_KAPLSB_ADDR, 369111074),
          Patch(DEBUG_ECC_IRAM_SAMPLE1_KAPLSB_ADDR, 0),
          Patch(DEBUG_ECC_IRAM_JUMP_DOUBLE_ADDR, jumpop)>>
      PatchRnd ==     \* NNRND phi0, NNRND phi1, TESTPARs, NOP, JL .dozdblL
        <<Patch(DEBUG_ECC_IRAM_RANDOM_PHI0_ADDR, 352321546),
          Patch(DEBUG_ECC_IRAM_RANDOM_PHI1_ADDR, 352321547),
          Patch(DEBUG_ECC_IRAM_SAMPLE0_KAPLSB_ADDR, 369111074),
          Patch(DEBUG_ECC_IRAM_SAMPLE1_KAPLSB_ADDR, 0),
          Patch(DEBUG_ECC_IRAM_JUMP_DOUBLE_ADDR, jumpop)>>
  IN <<OpCall("driver_setup"), [op |-> "level_check", level |-> a.level]>>
     \o (CASE a.level = 0 ->
                <<Cfg0(TRUE, FALSE),
                  Patch(DEBUG_ECC_IRAM_RANDOM_PHI0_ADDR, 1358987242),
                  Patch(DEBUG_ECC_IRAM_RANDOM_PHI1_ADDR, 1358987243),
                  Patch(DEBUG_ECC_IRAM_SAMPLE0_KAPLSB_ADDR, 335556620),
                  Patch(DEBUG_ECC_IRAM_SAMPLE1_KAPLSB_ADDR, 343946253),
                  Patch(DEBUG_ECC_IRAM_JUMP_DOUBLE_ADDR, jump0),
                  Res("ip_ecc_disable_aximsk"), Res("ip_ecc_attack_disable_nnrndsf"),
                  [op |-> "check_res"]>>
           [] a.level = 1 ->
                <<Res("ip_ecc_disable_aximsk"), Cfg0(FALSE, TRUE)>> \o PatchClear
                \o <<Res("ip_ecc_attack_enable_nnrndsf"), [op |-> "check_res"]>>
           [] a.level = 2 ->
                <<Res("ip_ecc_disable_aximsk"), Cfg0(FALSE, TRUE)>> \o PatchRnd
                \o <<[op |-> "check_res"]>>
           [] a.level = 3 ->
                <<Res("ip_ecc_disable_aximsk"), Cfg0(FALSE, FALSE)>> \o PatchRnd
                \o <<[op |-> "check_res"]>>
           [] OTHER -> <<>>)
     \o <<OpReturn(0)>>

ApiBody(a) ==
  CASE a.f = "hw_driver_is_on_curve" -> hw_driver_is_on_curve(a)
    [] a.f = "hw_driver_eq" -> hw_driver_eq(a)
    [] a.f = "hw_driver_opp" -> hw_driver_opp(a)
    [] a.f = "hw_driver_neg" -> hw_driver_neg(a)
    [] a.f = "hw_driver_dbl" -> hw_driver_dbl(a)
    [] a.f = "hw_driver_add" -> hw_driver_add(a)
    [] a.f = "hw_driver_mul" -> hw_driver_mul(a)
    [] a.f = "hw_driver_set_small_scalar_size" -> hw_driver_set_small_scalar_size(a)
    [] a.f = "hw_driver_enable_blinding_and_set_size" ->
         hw_driver_enable_blinding_and_set_size(a)
    [] a.f = "hw_driver_enable_zremask_and_set_period" ->
         hw_driver_enable_zremask_and_set_period(a)
    [] a.f = "hw_driver_reset" -> hw_driver_reset
    [] a.f = "hw_driver_halt_DBG" -> hw_driver_halt_DBG
    [] a.f = "hw_driver_set_breakpoint_DBG" -> hw_driver_set_breakpoint_DBG
    [] a.f = "hw_driver_remove_breakpoint_DBG" -> hw_driver_remove_breakpoint_DBG
    [] a.f = "hw_driver_run_opcodes_DBG" -> hw_driver_run_opcodes_DBG
    [] a.f = "hw_driver_single_step_DBG" -> hw_driver_single_step_DBG
    [] a.f = "hw_driver_resume_DBG" -> hw_driver_resume_DBG
    [] a.f = "hw_driver_patch_microcode_DBG" -> hw_driver_patch_microcode_DBG
    [] a.f = "hw_driver_configure_trng_DBG" -> hw_driver_configure_trng_DBG
    [] a.f = "hw_driver_reset_trng_raw_fifo_DBG" -> hw_driver_reset_trng_raw_fifo_DBG
    [] a.f = "hw_driver_reset_trng_irn_fifos_DBG" -> hw_driver_reset_trng_irn_fifos_DBG
    [] a.f = "hw_driver_trng_post_proc_disable_DBG" -> hw_driver_trng_post_proc_disable_DBG
    [] a.f = "hw_driver_trng_post_proc_enable_DBG" -> hw_driver_trng_post_proc_enable_DBG
    [] a.f = "hw_driver_bypass_full_trng_DBG" -> hw_driver_bypass_full_trng_DBG
    [] a.f = "hw_driver_enable_xyshuf" -> hw_driver_enable_xyshuf
    [] a.f = "hw_driver_enable_aximsk" -> hw_driver_enable_aximsk
    [] a.f = "hw_driver_disable_aximsk_DBG" -> hw_driver_disable_aximsk_DBG
    [] a.f = "hw_driver_dont_bypass_trng_DBG" -> hw_driver_dont_bypass_trng_DBG
    [] a.f = "hw_driver_nnrnd_deterministic_DBG" -> hw_driver_nnrnd_deterministic_DBG
    [] a.f = "hw_driver_nnrnd_not_deterministic_DBG" -> hw_driver_nnrnd_not_deterministic_DBG
    [] a.f = "hw_driver_select_trng_diag_source_DBG" -> hw_driver_select_trng_diag_source_DBG
    [] a.f = "hw_driver_read_one_raw_random_bit_DBG" -> hw_driver_read_one_raw_random_bit_DBG
    [] a.f = "hw_driver_get_trng_raw_fifo_filling_time_DBG" -> hw_driver_get_trng_raw_fifo_filling_time_DBG
    [] a.f = "hw_driver_get_trng_raw_fifo_state_DBG" -> hw_driver_get_trng_raw_fifo_state_DBG
    [] a.f = "hw_driver_get_content_of_trng_raw_random_fifo_DBG" -> hw_driver_get_content_of_trng_raw_random_fifo_DBG
    [] a.f = "hw_driver_get_trng_diagnostics_DBG" -> hw_driver_get_trng_diagnostics_DBG
    [] a.f = "hw_driver_patch_one_opcode_DBG" -> hw_driver_patch_one_opcode_DBG(a)
    [] a.f = "hw_driver_attack_set_level" -> hw_driver_attack_set_level(a)

----------------------------------------------------------------------------
(* Calls of the caller *)

\* a caller's input number: pointer a (NULL or not) and length a_sz
NullBuf == [null |-> TRUE, bytes |-> <<>>, sz |-> 0]
Buf(n, v) == [null |-> FALSE, bytes |-> Fill(n, v), sz |-> n]

NoApi ==
  [f |-> "none", x |-> NullBuf, y |-> NullBuf, x2 |-> NullBuf, y2 |-> NullBuf,
   scalar |-> NullBuf,
   out_sz |-> 0, out_sz_y |-> 0, flag |-> NULL, kp_time |-> NULL, bit_sz |-> 0,
   level |-> 0, address |-> 0, opcode_msb |-> 0, opcode_lsb |-> 0, opsz |-> 0,
   buf |-> <<>>, nbops |-> 0, addr |-> 0, id |-> 0, instead_bit |-> 0,
   debias |-> 0, ta |-> 0, cycles |-> 0, reg |-> "none", out_null |-> FALSE, rw |-> "none",
   blinding_size |-> 0, period |-> 0]

\* byte length of a big number of nn bits
NnBytes(h) == ip_ecc_nn_bytes_from_bits_sz(ip_ecc_get_nn_bit_size(h))

\* byte lengths the caller gives its input numbers
InSizes(h) == {NnBytes(h), BigSz}
\* sizes the caller announces for each of its output buffers
OutSizes(h) == {0, NnBytes(h) + 1}

FlagApis == {"hw_driver_is_on_curve", "hw_driver_eq", "hw_driver_opp"}
TwoPointApis == {"hw_driver_eq", "hw_driver_opp", "hw_driver_add"}
ResultApis == {"hw_driver_neg", "hw_driver_dbl", "hw_driver_add", "hw_driver_mul"}
PointApis == FlagApis \cup ResultApis

\* the calls the caller can make
ApiCalls(h) ==
  { [NoApi EXCEPT !.f = f, !.x = Buf(n, 18), !.y = Buf(n, 52),
                  !.x2 = IF f \in TwoPointApis THEN Buf(n, 86) ELSE NullBuf,
                  !.y2 = IF f \in TwoPointApis THEN Buf(n, 120) ELSE NullBuf,
                  !.flag = "flag"] :
      f \in FlagApis, n \in InSizes(h) }
  \cup
  { [NoApi EXCEPT !.f = c[1], !.x = Buf(c[2], 18), !.y = Buf(c[2], 52),
                  !.x2 = IF c[1] \in TwoPointApis THEN Buf(c[2], 86) ELSE NullBuf,
                  !.y2 = IF c[1] \in TwoPointApis THEN Buf(c[2], 120) ELSE NullBuf,
                  !.scalar = IF c[1] = "hw_driver_mul" THEN Buf(c[2], 7) ELSE NullBuf,
                  !.out_sz = c[3], !.out_sz_y = c[3],
                  !.kp_time = c[4]] :
      c \in { d \in ResultApis \X InSizes(h) \X OutSizes(h) \X {NULL, "kp_time"} :
                d[4] = NULL \/ (d[1] = "hw_driver_mul" /\ d[2] = NnBytes(h) /\ d[3] # 0) } }
  \cup   \* one output buffer large enough, the other not
  { [NoApi EXCEPT !.f = c[1], !.x = Buf(NnBytes(h), 18), !.y = Buf(NnBytes(h), 52),
                  !.x2 = IF c[1] \in TwoPointApis THEN Buf(NnBytes(h), 86) ELSE NullBuf,
                  !.y2 = IF c[1] \in TwoPointApis THEN Buf(NnBytes(h), 120) ELSE NullBuf,
                  !.scalar = IF c[1] = "hw_driver_mul" THEN Buf(NnBytes(h), 7) ELSE NullBuf,
                  !.out_sz = c[2], !.out_sz_y = c[3]] :
      c \in { d \in ResultApis \X {NnBytes(h) - 1, NnBytes(h)} \X {NnBytes(h) - 1, NnBytes(h)} :
                d[2] # d[3] } }
  \cup
  { [NoApi EXCEPT !.f = "hw_driver_set_small_scalar_size", !.bit_sz = 1] }

----------------------------------------------------------------------------
(* State *)

\* error bits an access can make the IP raise
PendChoices == {{}, {IPECC_ERR_COMP}}

LocInit(h) ==
  [inf_r0 |-> 0, inf_r1 |-> 0, nn_sz |-> 0, w |-> 0, hw_unsecure |-> FALSE, res |-> 0,
   dbgpc |-> "NONE", dbgstate |-> "IDLE", r1z |-> FALSE,
   baddr |-> FALSE,   \* ipecc_baddr was given by hw_driver_setup in this call
   watchdog |-> 0,
   token |-> Zeros(NnBytes(h))]   \* uint8_t token[4096] = {0, }: the bytes in use

MemInit(a) ==
  [out_x |-> Fill(a.out_sz, 238), out_y |-> Fill(a.out_sz_y, 238),
   out_x_sz |-> a.out_sz, out_y_sz |-> a.out_sz_y, flag |-> 2, kp_time |-> 0]

EntryOf(h, m) ==
  [r0null |-> h.r0null, r1null |-> h.r1null, mem |-> m, setup |-> setup,
   halted |-> h.halted, atk |-> h.atk]

HwInit ==
  { [busy |-> FALSE, rnd |-> FALSE, r0null |-> z0, r1null |-> z1, err |-> {}, pend |-> {},
     sel |-> "none", cur |-> "none", secure |-> s, nndyn |-> TRUE, nn |-> NnBits,
     nnmax |-> NnBits, halted |-> FALSE, nbopcodes |-> NbOpcodes, rawqty |-> RawQty,
     shuffle |-> TRUE, sticky |-> FALSE, atk |-> NoAtk, dbg |-> NoDbg] :
      z0 \in BOOLEAN, z1 \in BOOLEAN, s \in BOOLEAN }

\* no preset has been noted
NoNote == <<>>

\* no [k]P is traced
NoKtrc == [traced |-> FALSE]

\* no transfer is followed byte by byte
NoXfer == [stage |-> "none"]

Init ==
  /\ hw \in HwInit
  /\ setup = 0
  /\ phase = "idle"
  /\ api = NoApi
  /\ prog = <<>>
  /\ loc = LocInit(hw)
  /\ mem = MemInit(NoApi)
  /\ ret = 0
  /\ polled = FALSE
  /\ rndSeen = "none"
  /\ entry = EntryOf(hw, MemInit(NoApi))
  /\ trace = <<>>
  /\ xfer = NoXfer
  /\ noted = NoNote
  /\ ktrc = NoKtrc

Running == phase = "running" /\ prog # <<>>
AtOp(name) == Running /\ Head(prog).op = name
Failed == <<OpReturn(-1)>>

----------------------------------------------------------------------------
(* Steps of the caller and of the driver *)

\* the caller calls an exported function
ApiCall ==
  /\ phase = "idle"
  /\ \E a \in ApiCalls(hw) :
       /\ api' = a
       /\ prog' = ApiBody(a)
       /\ mem' = MemInit(a)
       /\ entry' = EntryOf(hw, MemInit(a))
  /\ loc' = LocInit(hw)
  /\ phase' = "running"
  /\ trace' = <<>>
  /\ polled' = FALSE
  /\ rndSeen' = "none"
  /\ UNCHANGED <<ktrc, noted, xfer, hw, setup, ret>>

\* a function of the driver is entered
Call ==
  /\ AtOp("call")
  /\ prog' = Body(Head(prog)) \o Tail(prog)
  /\ UNCHANGED <<ktrc, noted, xfer, hw, setup, phase, api, loc, mem, ret, polled, rndSeen, entry, trace>>

\* IPECC_BUSY_WAIT leaves its loop
BusyWait ==
  /\ AtOp("busy_wait")
  /\ IPECC_BUSY_WAIT_exit(hw.busy)
  /\ polled' = TRUE
  /\ prog' = Tail(prog)
  /\ UNCHANGED <<ktrc, noted, xfer, hw, setup, phase, api, loc, mem, ret, rndSeen, entry, trace>>

\* IPECC_ENOUGH_WK_RANDOM_WAIT leaves its loop
RndWait ==
  /\ AtOp("rnd_wait")
  /\ IPECC_ENOUGH_WK_RANDOM_WAIT_exit(hw.rnd)
  /\ rndSeen' = IF hw.rnd THEN "set" ELSE "clear"
  /\ prog' = Tail(prog)
  /\ UNCHANGED <<ktrc, noted, xfer, hw, setup, phase, api, loc, mem, ret, polled, entry, trace>>

\* IPECC_SET_REG
SetReg ==
  /\ AtOp("set_reg")
  /\ LET o == Head(prog)
     IN /\ \E pe \in PendChoices : hw' = HwWrite(hw, o.reg, o.val, pe)
        /\ trace' = Append(trace, Event(o.reg, o.val, ""))
  /\ polled' = FALSE
  /\ prog' = Tail(prog)
  /\ UNCHANGED <<ktrc, noted, xfer, setup, phase, api, loc, mem, ret, rndSeen, entry>>

\* IPECC_READ_DATA in ip_ecc_pop_word
ReadData ==
  /\ AtOp("read_data")
  /\ \E w \in WordVals, pe \in PendChoices :
       /\ loc' = [loc EXCEPT !.w = w]
       /\ hw' = HwReadData(hw, pe)
       /\ trace' = Append(trace, Event("R_READ_DATA", w, ""))
  /\ polled' = FALSE
  /\ prog' = Tail(prog)
  /\ UNCHANGED <<ktrc, noted, xfer, setup, phase, api, mem, ret, rndSeen, entry>>

\* ip_ecc_check_error
\* ip_ecc_check_error: the value returned, whether W_ERR_ACK is written, and
\* the value written, for the error field err just read
C6_ip_ecc_check_error_ackall(err) ==
  [ret |-> IF err # {} THEN -1 ELSE 0, acks |-> err # {},
   ack |-> 0..(IPECC_R_STATUS_ERRID_BITS - 1)]
ip_ecc_check_error(err) ==
  [ret |-> IF err # {} THEN -1 ELSE 0, acks |-> err # {}, ack |-> IPECC_ACK_ERROR(err)]

CheckError ==
  /\ AtOp("check_error")
  /\ LET err == IPECC_GET_ERROR(hw)
         r == ip_ecc_check_error(err)
         ev == Event("check_error", err, Head(prog).at)
     IN /\ IF r.acks
             THEN /\ hw' = HwWrite(hw, "W_ERR_ACK", r.ack, {})
                  /\ trace' = trace \o <<ev, Event("W_ERR_ACK", r.ack, Head(prog).at)>>
             ELSE /\ hw' = hw
                  /\ trace' = Append(trace, ev)
        /\ prog' = IF r.ret # 0 THEN Failed ELSE Tail(prog)
        /\ polled' = IF r.acks THEN FALSE ELSE polled
  /\ UNCHANGED <<ktrc, noted, xfer, setup, phase, api, loc, mem, ret, rndSeen, entry>>

\* IPECC_GET_R0_INF / IPECC_GET_R1_INF in ip_ecc_get_r0_inf / ip_ecc_get_r1_inf
GetInf ==
  /\ AtOp("get_inf")
  /\ loc' = IF Head(prog).idx = 0
              THEN [loc EXCEPT !.inf_r0 = IF hw.r0null THEN 1 ELSE 0]
              ELSE [loc EXCEPT !.inf_r1 = IF hw.r1null THEN 1 ELSE 0]
  /\ prog' = Tail(prog)
  /\ UNCHANGED <<ktrc, noted, xfer, hw, setup, phase, api, mem, ret, polled, rndSeen, entry, trace>>

\* IPECC_GET_ONCURVE / IPECC_GET_EQU / IPECC_GET_OPP in ip_ecc_exec_command
GetFlag ==
  /\ AtOp("get_flag")
  /\ \E yes \in {0, 1} :
       /\ mem' = [mem EXCEPT !.flag = yes]
       /\ trace' = Append(trace, Event("R_STATUS_YES", yes, "ip_ecc_exec_command"))
  /\ prog' = Tail(prog)
  /\ UNCHANGED <<ktrc, noted, xfer, hw, setup, phase, api, loc, ret, polled, rndSeen, entry>>

\* ip_ecc_get_time, called by ip_ecc_exec_command when kp_time is not NULL
GetTime ==
  /\ AtOp("get_time")
  /\ IF ~hw.halted
       THEN prog' = Failed /\ mem' = mem
       ELSE prog' = Tail(prog) /\ mem' = [mem EXCEPT !.kp_time = 1]
  /\ UNCHANGED <<ktrc, noted, xfer, hw, setup, phase, api, loc, ret, polled, rndSeen, entry, trace>>

\* the inner loop of ip_ecc_read_bignum: the bytes of the word just popped
Scatter ==
  /\ AtOp("scatter")
  /\ LET o == Head(prog)
     IN CASE o.dst = "token" ->
               /\ loc' = [loc EXCEPT !.token = ScatterWord(loc.token, o.a_sz, o.k, loc.w)]
               /\ mem' = mem
          [] o.dst = "out_x" ->
               /\ mem' = [mem EXCEPT !.out_x = ScatterWord(mem.out_x, o.a_sz, o.k, loc.w)]
               /\ loc' = loc
          [] o.dst = "out_y" ->
               /\ mem' = [mem EXCEPT !.out_y = ScatterWord(mem.out_y, o.a_sz, o.k, loc.w)]
               /\ loc' = loc
  /\ prog' = Tail(prog)
  /\ UNCHANGED <<ktrc, noted, xfer, hw, setup, phase, api, ret, polled, rndSeen, entry, trace>>

\* nn_sz = ip_ecc_nn_bytes_from_bits_sz(ip_ecc_get_nn_bit_size()); in
\* hw_driver_mul it is checked against the size of the token array
GetNnSz ==
  /\ AtOp("get_nn_sz")
  /\ loc' = [loc EXCEPT !.nn_sz = NnBytes(hw)]
  /\ prog' = IF Head(prog).limit /\ NnBytes(hw) > TOKEN_ARRAY_SZ THEN Failed ELSE Tail(prog)
  /\ UNCHANGED <<ktrc, noted, xfer, hw, setup, phase, api, mem, ret, polled, rndSeen, entry, trace>>

\* the check of the caller's sizes and (*out_x_sz) = (*out_y_sz) = nn_sz
C16_OutSizeCheck_x_only ==
  /\ AtOp("out_size_check")
  /\ IF mem.out_x_sz < loc.nn_sz
       THEN prog' = Failed /\ mem' = mem
       ELSE /\ prog' = Tail(prog)
            /\ mem' = [mem EXCEPT !.out_x_sz = loc.nn_sz, !.out_y_sz = loc.nn_sz]
  /\ UNCHANGED <<ktrc, noted, xfer, hw, setup, phase, api, loc, ret, polled, rndSeen, entry, trace>>
OutSizeCheck ==
  /\ AtOp("out_size_check")
  /\ IF mem.out_x_sz < loc.nn_sz \/ mem.out_y_sz < loc.nn_sz
       THEN prog' = Failed /\ mem' = mem
       ELSE /\ prog' = Tail(prog)
            /\ mem' = [mem EXCEPT !.out_x_sz = loc.nn_sz, !.out_y_sz = loc.nn_sz]
  /\ UNCHANGED <<ktrc, noted, xfer, hw, setup, phase, api, loc, ret, polled, rndSeen, entry, trace>>

\* ip_ecc_unmask_with_token(in_a, a_sz, in_tok, t_sz): the bytes stored in out_b
ip_ecc_unmask_with_token(in_a, a_sz, in_tok, t_sz) ==
  [i \in DOMAIN in_a |-> IF i <= a_sz THEN XorBits(in_a[i], in_tok[i], 8) ELSE in_a[i]]

\* ip_ecc_unmask_with_token(out, *out_sz, token, nn_sz, out, out_sz) in hw_driver_mul
Unmask ==
  /\ AtOp("unmask")
  /\ LET dst == Head(prog).dst
         a_sz == IF dst = "out_x" THEN mem.out_x_sz ELSE mem.out_y_sz
         t_sz == loc.nn_sz
     IN IF a_sz # t_sz
          THEN prog' = Failed /\ mem' = mem /\ trace' = trace
          ELSE /\ prog' = Tail(prog)
               /\ mem' = IF dst = "out_x"
                           THEN [mem EXCEPT !.out_x =
                                   ip_ecc_unmask_with_token(mem.out_x, a_sz, loc.token, t_sz),
                                            !.out_x_sz = a_sz]
                           ELSE [mem EXCEPT !.out_y =
                                   ip_ecc_unmask_with_token(mem.out_y, a_sz, loc.token, t_sz),
                                            !.out_y_sz = a_sz]
               /\ trace' = Append(trace, Event("unmask", loc.token, dst))
  /\ UNCHANGED <<ktrc, noted, xfer, hw, setup, phase, api, loc, ret, polled, rndSeen, entry>>

\* ip_ecc_clear_token(token, nn_sz)
ip_ecc_clear_token(tok, t_sz) == [i \in DOMAIN tok |-> IF i <= t_sz THEN 0 ELSE tok[i]]

ClearToken ==
  /\ AtOp("clear_token")
  /\ loc' = [loc EXCEPT !.token = ip_ecc_clear_token(loc.token, loc.nn_sz)]
  /\ prog' = Tail(prog)
  /\ UNCHANGED <<ktrc, noted, xfer, hw, setup, phase, api, mem, ret, polled, rndSeen, entry, trace>>

\* hw_driver_setup of the platform layer (called by driver_setup): it can fail
PlatformSetup ==
  /\ AtOp("hw_driver_setup")
  /\ \E ok \in BOOLEAN :
       /\ prog' = IF ok THEN Tail(prog) ELSE Failed
       /\ loc' = [loc EXCEPT !.baddr = ok]
  /\ UNCHANGED <<ktrc, noted, xfer, hw, setup, phase, api, mem, ret, polled, rndSeen, entry, trace>>

\* IPECC_IS_HW_UNSECURE in ip_ecc_is_hw_unsecure
ReadCap ==
  /\ AtOp("read_cap")
  /\ loc' = [loc EXCEPT !.hw_unsecure = IPECC_IS_HW_UNSECURE(hw)]
  /\ prog' = Tail(prog)
  /\ UNCHANGED <<ktrc, noted, xfer, hw, setup, phase, api, mem, ret, polled, rndSeen, entry, trace>>

\* hw_driver_setup_state = 1
SetSetupState ==
  /\ AtOp("set_setup_state")
  /\ setup' = 1
  /\ prog' = Tail(prog)
  /\ UNCHANGED <<ktrc, noted, xfer, hw, phase, api, loc, mem, ret, polled, rndSeen, entry, trace>>

\* goto err
GotoErr ==
  /\ AtOp("fail")
  /\ prog' = Failed
  /\ UNCHANGED <<ktrc, noted, xfer, hw, setup, phase, api, loc, mem, ret, polled, rndSeen, entry, trace>>

\* the exported function returns
Return ==
  /\ AtOp("return")
  /\ ret' = Head(prog).val
  /\ phase' = "returned"
  /\ prog' = <<>>
  /\ UNCHANGED <<ktrc, noted, xfer, hw, setup, api, loc, mem, polled, rndSeen, entry, trace>>

\* the caller has used the result; the frame of the call is gone
Retire ==
  /\ phase = "returned"
  /\ phase' = "idle"
  /\ api' = NoApi
  /\ loc' = LocInit(hw)
  /\ mem' = MemInit(NoApi)
  /\ ret' = 0
  /\ polled' = FALSE
  /\ rndSeen' = "none"
  /\ entry' = EntryOf(hw, MemInit(NoApi))
  /\ trace' = <<>>
  /\ UNCHANGED <<ktrc, noted, xfer, hw, setup, prog>>

----------------------------------------------------------------------------
(* Steps of the IP *)

\* the operation in progress completes
HwComplete ==
  /\ hw.busy
  /\ ~hw.halted
  /\ hw.dbg.followed => hw.dbg.run # "step"
  /\ \E r1z \in BOOLEAN : hw' = HwDone(hw, r1z)
  /\ UNCHANGED <<ktrc, noted, xfer, setup, phase, api, prog, loc, mem, ret, polled, rndSeen, entry, trace>>

\* the IP has gathered enough random to mask a scalar: ENOUGH_RND_WK rises
HwGatherRandom ==
  /\ ~hw.rnd
  /\ hw' = [hw EXCEPT !.rnd = TRUE]
  /\ UNCHANGED <<ktrc, noted, xfer, setup, phase, api, prog, loc, mem, ret, polled, rndSeen, entry, trace>>

----------------------------------------------------------------------------

DriverStep ==
  \/ Call
  \/ BusyWait
  \/ RndWait
  \/ SetReg
  \/ ReadData
  \/ CheckError
  \/ GetInf
  \/ GetFlag
  \/ GetTime
  \/ Scatter
  \/ GetNnSz
  \/ OutSizeCheck
  \/ Unmask
  \/ ClearToken
  \/ PlatformSetup
  \/ ReadCap
  \/ SetSetupState
  \/ GotoErr
  \/ Return

Next ==
  \/ ApiCall
  \/ DriverStep
  \/ Retire
  \/ HwComplete
  \/ HwGatherRandom

Spec == Init /\ [][Next]_vars

----------------------------------------------------------------------------
(* Calls of the point operations with a NULL input pointer *)

\* a NULL pointer for an input coordinate, for the scalar
NullCalls(h) ==
  { [NoApi EXCEPT !.f = "hw_driver_is_on_curve", !.x = NullBuf, !.y = Buf(n, 52),
                  !.flag = "flag"] : n \in InSizes(h) }
  \cup
  { [NoApi EXCEPT !.f = "hw_driver_mul", !.x = Buf(NnBytes(h), 18), !.y = Buf(NnBytes(h), 52),
                  !.scalar = NullBuf, !.out_sz = NnBytes(h) + 1, !.out_sz_y = NnBytes(h) + 1],
    [NoApi EXCEPT !.f = "hw_driver_mul", !.x = NullBuf, !.y = Buf(NnBytes(h), 52),
                  !.scalar = Buf(NnBytes(h), 7), !.out_sz = NnBytes(h) + 1,
                  !.out_sz_y = NnBytes(h) + 1, !.kp_time = "kp_time"] }

\* the caller calls a point operation with a NULL input pointer
NullCall ==
  /\ phase = "idle"
  /\ \E a \in NullCalls(hw) :
       /\ api' = a
       /\ prog' = ApiBody(a)
       /\ mem' = MemInit(a)
       /\ entry' = EntryOf(hw, MemInit(a))
  /\ loc' = LocInit(hw)
  /\ phase' = "running"
  /\ trace' = <<>>
  /\ polled' = FALSE
  /\ rndSeen' = "none"
  /\ UNCHANGED <<ktrc, noted, xfer, hw, setup, ret>>

NextNull ==
  \/ NullCall
  \/ DriverStep
  \/ Retire
  \/ HwComplete
  \/ HwGatherRandom

SpecNull == Init /\ [][NextNull]_vars

----------------------------------------------------------------------------
(* The configuration of the countermeasures and of the small scalar size *)

\* the functions followed
CfgApis ==
  {"hw_driver_set_small_scalar_size", "hw_driver_enable_blinding_and_set_size",
   "hw_driver_enable_zremask_and_set_period"}

\* the calls the caller makes: blinding sizes 0 (disable) and 1, periods 0
\* (not supported), 1 and 2
CfgCalls ==
  { [NoApi EXCEPT !.f = "hw_driver_set_small_scalar_size", !.bit_sz = 1] }
  \cup
  { [NoApi EXCEPT !.f = "hw_driver_enable_blinding_and_set_size", !.blinding_size = n] :
      n \in {0, 1} }
  \cup
  { [NoApi EXCEPT !.f = "hw_driver_enable_zremask_and_set_period", !.period = n] :
      n \in {0, 1, 2} }

\* the caller calls one of them
CfgCall ==
  /\ phase = "idle"
  /\ \E a \in CfgCalls :
       /\ api' = a
       /\ prog' = ApiBody(a)
       /\ mem' = MemInit(a)
       /\ entry' = EntryOf(hw, MemInit(a))
  /\ loc' = LocInit(hw)
  /\ phase' = "running"
  /\ trace' = <<>>
  /\ polled' = FALSE
  /\ rndSeen' = "none"
  /\ UNCHANGED <<ktrc, noted, xfer, hw, setup, ret>>

NextCfg ==
  \/ CfgCall
  \/ Call
  \/ BusyWait
  \/ SetReg
  \/ CheckError
  \/ PlatformSetup
  \/ ReadCap
  \/ SetSetupState
  \/ Return
  \/ Retire
  \/ HwComplete

SpecCfg == Init /\ [][NextCfg]_vars

----------------------------------------------------------------------------
(* The debug and attack surface *)

\* the debug functions for halting, breakpoints, stepping and resuming, opcode
\* and microcode patching, and TRNG configuration, raw access and diagnostics
DebugApis ==
  {"hw_driver_halt_DBG", "hw_driver_set_breakpoint_DBG", "hw_driver_remove_breakpoint_DBG",
   "hw_driver_run_opcodes_DBG", "hw_driver_single_step_DBG", "hw_driver_resume_DBG",
   "hw_driver_patch_one_opcode_DBG", "hw_driver_patch_microcode_DBG",
   "hw_driver_configure_trng_DBG", "hw_driver_reset_trng_raw_fifo_DBG",
   "hw_driver_reset_trng_irn_fifos_DBG", "hw_driver_trng_post_proc_disable_DBG",
   "hw_driver_trng_post_proc_enable_DBG", "hw_driver_bypass_full_trng_DBG",
   "hw_driver_dont_bypass_trng_DBG", "hw_driver_nnrnd_deterministic_DBG",
   "hw_driver_nnrnd_not_deterministic_DBG", "hw_driver_select_trng_diag_source_DBG",
   "hw_driver_read_one_raw_random_bit_DBG", "hw_driver_get_trng_raw_fifo_filling_time_DBG",
   "hw_driver_get_trng_raw_fifo_state_DBG",
   "hw_driver_get_content_of_trng_raw_random_fifo_DBG",
   "hw_driver_get_trng_diagnostics_DBG"}

\* debug functions whose arguments the model does not vary
PlainDebugApis ==
  DebugApis \ {"hw_driver_patch_one_opcode_DBG", "hw_driver_patch_microcode_DBG",
               "hw_driver_bypass_full_trng_DBG"}

\* the countermeasure switches that are only allowed in HW unsecure mode
ShufMaskApis ==
  {"hw_driver_enable_xyshuf", "hw_driver_enable_aximsk", "hw_driver_disable_aximsk_DBG"}

\* the exported functions that do nothing but call ip_ecc_set_breakpoint and
\* ip_ecc_remove_breakpoint once the driver is set up and the IP is seen unsecure
BkptApis == {"hw_driver_set_breakpoint_DBG", "hw_driver_remove_breakpoint_DBG"}

\* a breakpoint id outside 0..3, whose two low bits name slot 1
BadBkptIds == {5}

\* an address of the microcode memory, and one beyond it
PatchAddresses == {DEBUG_ECC_IRAM_RANDOM_PHI0_ADDR, (2 * NbOpcodes) + 1}

\* the calls the caller can make to the debug and attack surface
DbgApiCalls ==
  { [NoApi EXCEPT !.f = f, !.nbops = 1, !.id = 1, !.addr = 1, !.debias = 1, !.ta = 1,
                  !.cycles = 1] : f \in PlainDebugApis }
  \cup
  { [NoApi EXCEPT !.f = "hw_driver_patch_one_opcode_DBG", !.address = c[1], !.opsz = c[2],
                  !.opcode_msb = 1, !.opcode_lsb = 2] :
      c \in PatchAddresses \X {1, 2, 3} }
  \cup
  { [NoApi EXCEPT !.f = "hw_driver_patch_microcode_DBG", !.nbops = c[1], !.opsz = c[2],
                  !.buf = [j \in 1..(2 * c[1]) |-> j]] :
      c \in {1, 2} \X {1, 2} }
  \cup
  { [NoApi EXCEPT !.f = "hw_driver_bypass_full_trng_DBG", !.instead_bit = b] : b \in {0, 1, 2} }
  \cup
  { [NoApi EXCEPT !.f = "hw_driver_attack_set_level", !.level = l] : l \in 0..4 }
  \cup
  { [NoApi EXCEPT !.f = "hw_driver_set_small_scalar_size", !.bit_sz = 1] }
  \cup
  { [NoApi EXCEPT !.f = "hw_driver_reset"] }
  \cup
  { [NoApi EXCEPT !.f = f] : f \in ShufMaskApis }
  \cup   \* a breakpoint id that is none of the four slots
  { [NoApi EXCEPT !.f = c[1], !.id = c[2], !.addr = 1] : c \in BkptApis \X BadBkptIds }

\* the caller calls a function of the debug and attack surface
DbgApiCall ==
  /\ phase = "idle"
  /\ \E a \in DbgApiCalls :
       /\ api' = a
       /\ prog' = ApiBody(a)
       /\ mem' = MemInit(a)
       /\ entry' = EntryOf(hw, MemInit(a))
  /\ loc' = LocInit(hw)
  /\ phase' = "running"
  /\ trace' = <<>>
  /\ polled' = FALSE
  /\ rndSeen' = "none"
  /\ UNCHANGED <<ktrc, noted, xfer, hw, setup, ret>>

\* if (IPECC_IS_HW_SECURE()) goto err;
SecureCheck ==
  /\ AtOp("secure_check")
  /\ prog' = IF IPECC_IS_HW_SECURE(hw) THEN Failed ELSE Tail(prog)
  /\ UNCHANGED <<ktrc, noted, xfer, hw, setup, phase, api, loc, mem, ret, polled, rndSeen, entry, trace>>

\* hw_driver_attack_set_level: the check of level, and res = 0
LevelCheck ==
  /\ AtOp("level_check")
  /\ LET level == Head(prog).level
     IN IF level # 0 /\ level # 1 /\ level # 2 /\ level # 3
          THEN prog' = Failed /\ loc' = loc
          ELSE prog' = Tail(prog) /\ loc' = [loc EXCEPT !.res = 0]
  /\ UNCHANGED <<ktrc, noted, xfer, hw, setup, phase, api, mem, ret, polled, rndSeen, entry, trace>>

\* res |= f(), when f returned -1
OrRes ==
  /\ AtOp("or_res")
  /\ loc' = [loc EXCEPT !.res = -1]
  /\ prog' = Tail(prog)
  /\ UNCHANGED <<ktrc, noted, xfer, hw, setup, phase, api, mem, ret, polled, rndSeen, entry, trace>>

\* if (res) goto err;
CheckRes ==
  /\ AtOp("check_res")
  /\ prog' = IF loc.res # 0 THEN Failed ELSE Tail(prog)
  /\ UNCHANGED <<ktrc, noted, xfer, hw, setup, phase, api, loc, mem, ret, polled, rndSeen, entry, trace>>

\* IPECC_GET_REG of a register of the debug surface
DbgRead ==
  /\ AtOp("dbg_read")
  /\ trace' = Append(trace, Event(Head(prog).reg, 0, ""))
  /\ prog' = Tail(prog)
  /\ UNCHANGED <<ktrc, noted, xfer, hw, setup, phase, api, loc, mem, ret, polled, rndSeen, entry>>

\* the polls after which the watchdog of ip_ecc_get_trng_raw_fifo_filling_time
\* runs out (0x1000000 in the code)
WatchdogMax == 3

\* ip_ecc_get_trng_raw_fifo_filling_time: one test of the loop that polls the
\* FULL bit of the raw FIFO until it is set or the watchdog has run out,
\*   while (watchdog < 0x1000000U) { if (full) { timeout = false; break; }
\*                                   watchdog++; }
\*   if (timeout) goto err;
C25_FifoFullWait_one_more ==
  /\ AtOp("fifo_full_wait")
  /\ IF loc.watchdog <= WatchdogMax
       THEN \E full \in BOOLEAN :
              /\ trace' = Append(trace, Event("R_DBG_TRNG_STATUS", full, "full"))
              /\ prog' = IF full THEN Tail(prog) ELSE prog
              /\ loc' = IF full THEN loc ELSE [loc EXCEPT !.watchdog = @ + 1]
       ELSE /\ prog' = Failed
            /\ UNCHANGED <<loc, trace>>
  /\ UNCHANGED <<ktrc, noted, xfer, hw, setup, phase, api, mem, ret, polled, rndSeen, entry>>
FifoFullWait ==
  /\ AtOp("fifo_full_wait")
  /\ IF loc.watchdog < WatchdogMax
       THEN \E full \in BOOLEAN :
              /\ trace' = Append(trace, Event("R_DBG_TRNG_STATUS", full, "full"))
              /\ prog' = IF full THEN Tail(prog) ELSE prog
              /\ loc' = IF full THEN loc ELSE [loc EXCEPT !.watchdog = @ + 1]
       ELSE /\ prog' = Failed
            /\ UNCHANGED <<loc, trace>>
  /\ UNCHANGED <<ktrc, noted, xfer, hw, setup, phase, api, mem, ret, polled, rndSeen, entry>>

\* hardware configurations for the debug surface
HwInitDbg ==
  { [h EXCEPT !.shuffle = s] : h \in {g \in HwInit : ~g.r0null /\ ~g.r1null}, s \in BOOLEAN }

InitDbg ==
  /\ hw \in HwInitDbg
  /\ setup = 0
  /\ phase = "idle"
  /\ api = NoApi
  /\ prog = <<>>
  /\ loc = LocInit(hw)
  /\ mem = MemInit(NoApi)
  /\ ret = 0
  /\ polled = FALSE
  /\ rndSeen = "none"
  /\ entry = EntryOf(hw, MemInit(NoApi))
  /\ trace = <<>>
  /\ xfer = NoXfer
  /\ noted = NoNote
  /\ ktrc = NoKtrc

NextDbg ==
  \/ DbgApiCall
  \/ Call
  \/ BusyWait
  \/ SetReg
  \/ PlatformSetup
  \/ ReadCap
  \/ SetSetupState
  \/ SecureCheck
  \/ LevelCheck
  \/ OrRes
  \/ CheckRes
  \/ DbgRead
  \/ FifoFullWait
  \/ GotoErr
  \/ Return
  \/ Retire
  \/ HwComplete

SpecDbg == InitDbg /\ [][NextDbg]_vars

----------------------------------------------------------------------------
(* The attack presets, on an IP whose side-channel configuration is followed *)

\* hardware configurations for the attack presets
HwInitAtk ==
  { [h EXCEPT !.atk = AtkInit] : h \in {g \in HwInit : ~g.r0null /\ ~g.r1null} }

\* the calls the caller makes: every preset and a level that is none, and the
\* function that leaves the IP busy
AtkApiCalls ==
  { a \in DbgApiCalls :
      a.f \in {"hw_driver_attack_set_level", "hw_driver_set_small_scalar_size"} }

\* the caller calls one of these functions
AtkApiCall ==
  /\ phase = "idle"
  /\ \E a \in AtkApiCalls :
       /\ api' = a
       /\ prog' = ApiBody(a)
       /\ mem' = MemInit(a)
       /\ entry' = EntryOf(hw, MemInit(a))
  /\ loc' = LocInit(hw)
  /\ phase' = "running"
  /\ trace' = <<>>
  /\ polled' = FALSE
  /\ rndSeen' = "none"
  /\ UNCHANGED <<ktrc, noted, xfer, hw, setup, ret>>

\* what a preset configures: the attack configuration register, the opcodes at
\* the five patched addresses, the AXI masking of the scalar and the masking by
\* the shift registers (nnrndsf)
AttackCfg(h) ==
  [cfg0 |-> h.atk.cfg0, iram |-> h.atk.iram, aximsk |-> h.atk.aximsk, cfg1 |-> h.atk.cfg1]

\* hw_driver_attack_set_level has just returned success
LevelIsSet ==
  phase = "returned" /\ api.f = "hw_driver_attack_set_level" /\ ret = 0

\* an observer notes, once, the configuration that a preset has left
NotePreset ==
  /\ LevelIsSet
  /\ noted = NoNote
  /\ ktrc = NoKtrc
  /\ noted' = <<[level |-> api.level, cfg |-> AttackCfg(hw)]>>
  /\ UNCHANGED <<ktrc, xfer, hw, setup, phase, api, prog, loc, mem, ret, polled, rndSeen, entry,
                 trace>>

InitAtk ==
  /\ hw \in HwInitAtk
  /\ setup = 0
  /\ phase = "idle"
  /\ api = NoApi
  /\ prog = <<>>
  /\ loc = LocInit(hw)
  /\ mem = MemInit(NoApi)
  /\ ret = 0
  /\ polled = FALSE
  /\ rndSeen = "none"
  /\ entry = EntryOf(hw, MemInit(NoApi))
  /\ trace = <<>>
  /\ xfer = NoXfer
  /\ noted = NoNote
  /\ ktrc = NoKtrc

NextAtk ==
  \/ AtkApiCall
  \/ Call
  \/ BusyWait
  \/ SetReg
  \/ PlatformSetup
  \/ ReadCap
  \/ SetSetupState
  \/ LevelCheck
  \/ OrRes
  \/ CheckRes
  \/ Return
  \/ Retire
  \/ HwComplete
  \/ NotePreset

SpecAtk == InitAtk /\ [][NextAtk]_vars

----------------------------------------------------------------------------
(* The traced [k]P on its own, on an IP whose debug state is followed *)

\* the steps after which the IP of the model stays in the step it is in
MaxSteps == 2

\* the sizes the caller declares for the buffer of the trace
MsgSizes == {16, 132, 400}

\* addresses of the microcode the IP of the model halts on: the first opcode of
\* .checkoncurveL, the last one, the first opcode of the exit routine, and
\* another address, at which kp_debug_trace prints nothing
Pcs == {"CHKCURVE_OP1", "CHKCURVE_OPLAST", "EXIT_OP1", "OTHER"}

\* states of the main FSM
FsmStates == {"CHECKONCURVE", "EXIT"}

\* hardware configurations for the traced [k]P: an unsecure IP, with no
\* breakpoint or with a breakpoint that the caller has set earlier
HwInitTrace ==
  { [h EXCEPT !.dbg = [DbgInit EXCEPT !.bkpt = b]] :
      h \in {g \in HwInit : ~g.r0null /\ ~g.r1null /\ ~g.secure}, b \in {{}, {1}} }

\* ip_ecc_exec_command calls kp_debug_trace(ktrc) after IPECC_BUSY_WAIT, with a
\* trace that is empty or NULL; the flag overflow of kp_trace_msg_append is
\* static and keeps its value
KpTraceCall ==
  /\ phase = "idle"
  /\ \E max \in MsgSizes, null \in BOOLEAN :
       ktrc' = [traced |-> TRUE, null |-> null, msgsz |-> 0, msgsz_max |-> max,
                nb_steps |-> 0, overflow |-> ktrc.overflow, warnings |-> ktrc.warnings]
  /\ api' = [NoApi EXCEPT !.f = "kp_debug_trace"]
  /\ prog' = <<OpBusyWait, OpCall("kp_debug_trace"), OpReturn(0)>>
  /\ mem' = MemInit(NoApi)
  /\ entry' = EntryOf(hw, MemInit(NoApi))
  /\ loc' = LocInit(hw)
  /\ phase' = "running"
  /\ trace' = <<>>
  /\ polled' = FALSE
  /\ rndSeen' = "none"
  /\ UNCHANGED <<noted, xfer, hw, setup, ret>>

\* kp_trace_msg_append
TraceAppend ==
  /\ AtOp("trace_append")
  /\ ktrc' = kp_trace_msg_append(ktrc, Head(prog).len)
  /\ prog' = Tail(prog)
  /\ UNCHANGED <<noted, xfer, hw, setup, phase, api, loc, mem, ret, polled, rndSeen, entry,
                 trace>>

\* kp_trace_msg_append(ktrc, "%d debug steps for this [k]P computation.\n",
\* ktrc->nb_steps), nb_steps under 10
AppendSteps ==
  /\ AtOp("append_steps")
  /\ ktrc' = kp_trace_msg_append(ktrc, 1 + 40)
  /\ prog' = Tail(prog)
  /\ UNCHANGED <<noted, xfer, hw, setup, phase, api, loc, mem, ret, polled, rndSeen, entry,
                 trace>>

\* IPECC_POLL_UNTIL_DEBUG_HALTED leaves its loop
PollHalted ==
  /\ AtOp("poll_halted")
  /\ IPECC_IS_IP_DEBUG_HALTED(hw)
  /\ prog' = Tail(prog)
  /\ UNCHANGED <<ktrc, noted, xfer, hw, setup, phase, api, loc, mem, ret, polled, rndSeen,
                 entry, trace>>

\* dbgpc = IPECC_GET_PC(); dbgstate = IPECC_GET_FSM_STATE(); in the loop, after
\* ktrc->nb_steps++
GetPcState ==
  /\ AtOp("get_pc_state")
  /\ ktrc' = IF Head(prog).step THEN [ktrc EXCEPT !.nb_steps = @ + 1] ELSE ktrc
  /\ loc' = [loc EXCEPT !.dbgpc = hw.dbg.pc, !.dbgstate = hw.dbg.state]
  /\ trace' = Append(trace, Event("R_DBG_STATUS", [pc |-> hw.dbg.pc, state |-> hw.dbg.state],
                                  IF Head(prog).step THEN "step" ELSE "break"))
  /\ prog' = Tail(prog)
  /\ UNCHANGED <<noted, xfer, hw, setup, phase, api, mem, ret, polled, rndSeen, entry>>

\* get_exp_flags: the flag r1z of R_DBG_EXP_FLAGS
GetExpFlags ==
  /\ AtOp("get_exp_flags")
  /\ loc' = [loc EXCEPT !.r1z = hw.r1null]
  /\ prog' = Tail(prog)
  /\ UNCHANGED <<ktrc, noted, xfer, hw, setup, phase, api, mem, ret, polled, rndSeen, entry,
                 trace>>

\* if (dbgpc != DEBUG_ECC_IRAM_CHKCURVE_OP1_ADDR) goto err;
\* if (dbgstate != IPECC_DEBUG_STATE_CHECKONCURVE) goto err;
CheckBreak ==
  /\ AtOp("check_break")
  /\ prog' = IF loc.dbgpc # "CHKCURVE_OP1" \/ loc.dbgstate # "CHECKONCURVE"
               THEN Failed ELSE Tail(prog)
  /\ UNCHANGED <<ktrc, noted, xfer, hw, setup, phase, api, loc, mem, ret, polled, rndSeen,
                 entry, trace>>

\* if ((dbgpc == DEBUG_ECC_IRAM_CHKCURVE_OPLAST_ADDR) &&
\*     (dbgstate == IPECC_DEBUG_STATE_EXIT)) break;  } while (1);
LoopTest ==
  /\ AtOp("loop_test")
  /\ prog' = IF loc.dbgpc = "CHKCURVE_OPLAST" /\ loc.dbgstate = "EXIT"
               THEN Tail(prog)
               ELSE <<OpCall("kp_debug_trace_step")>> \o Tail(prog)
  /\ UNCHANGED <<ktrc, noted, xfer, hw, setup, phase, api, loc, mem, ret, polled, rndSeen,
                 entry, trace>>

\* ip_debug_read_all_limbs: the limbs of one large number are read through
\* W_DBG_FP_RADDR and R_DBG_FP_RDATA; the values it returns are not looked at
ReadAllLimbs ==
  /\ AtOp("read_all_limbs")
  /\ trace' = Append(trace, Event("W_DBG_FP_RADDR", Head(prog).lgnb, ""))
  /\ prog' = Tail(prog)
  /\ UNCHANGED <<ktrc, noted, xfer, hw, setup, phase, api, loc, mem, ret, polled, rndSeen,
                 entry>>

\* The IP halts: on a breakpoint that the running microcode hits (breakpoint 0
\* on the first opcode of .checkoncurveL, another breakpoint on another
\* address), or after the opcode that a single step has run
HwHalt ==
  /\ hw.dbg.followed
  /\ hw.busy
  /\ ~hw.halted
  /\ \/ /\ hw.dbg.run = "free"
        /\ \E pc \in Pcs, st \in FsmStates :
             /\ \/ pc = "CHKCURVE_OP1" /\ 0 \in hw.dbg.bkpt
                \/ pc = "OTHER" /\ (hw.dbg.bkpt \ {0}) # {}
             /\ hw' = [hw EXCEPT !.halted = TRUE, !.dbg.run = "none", !.dbg.pc = pc,
                                  !.dbg.state = st]
     \/ /\ hw.dbg.run = "step"
        /\ hw.dbg.steps < MaxSteps
        /\ \E pc \in Pcs, st \in FsmStates :
             hw' = [hw EXCEPT !.halted = TRUE, !.dbg.run = "none", !.dbg.pc = pc,
                              !.dbg.state = st, !.dbg.steps = @ + 1]
  /\ UNCHANGED <<ktrc, noted, xfer, setup, phase, api, prog, loc, mem, ret, polled, rndSeen,
                 entry, trace>>

InitTrace ==
  /\ hw \in HwInitTrace
  /\ setup = 1
  /\ phase = "idle"
  /\ api = NoApi
  /\ prog = <<>>
  /\ loc = LocInit(hw)
  /\ mem = MemInit(NoApi)
  /\ ret = 0
  /\ polled = FALSE
  /\ rndSeen = "none"
  /\ entry = EntryOf(hw, MemInit(NoApi))
  /\ trace = <<>>
  /\ xfer = NoXfer
  /\ noted = NoNote
  /\ ktrc = [traced |-> TRUE, null |-> TRUE, msgsz |-> 0, msgsz_max |-> 0, nb_steps |-> 0,
             overflow |-> FALSE, warnings |-> 0]

NextTrace ==
  \/ KpTraceCall
  \/ Call
  \/ BusyWait
  \/ SetReg
  \/ TraceAppend
  \/ AppendSteps
  \/ PollHalted
  \/ GetPcState
  \/ GetExpFlags
  \/ CheckBreak
  \/ LoopTest
  \/ ReadAllLimbs
  \/ GotoErr
  \/ Return
  \/ Retire
  \/ HwComplete
  \/ HwHalt

SpecTrace == InitTrace /\ [][NextTrace]_vars

----------------------------------------------------------------------------
(* Termination: an IP that completes every operation it was given, and whose *)
(* ENOUGH_RND_WK flag rises and then stays set *)

HwInitLive ==
  { [h EXCEPT !.sticky = TRUE] : h \in {g \in HwInit : ~g.r0null /\ ~g.r1null} }

InitLive ==
  /\ hw \in HwInitLive
  /\ setup = 0
  /\ phase = "idle"
  /\ api = NoApi
  /\ prog = <<>>
  /\ loc = LocInit(hw)
  /\ mem = MemInit(NoApi)
  /\ ret = 0
  /\ polled = FALSE
  /\ rndSeen = "none"
  /\ entry = EntryOf(hw, MemInit(NoApi))
  /\ trace = <<>>
  /\ xfer = NoXfer
  /\ noted = NoNote
  /\ ktrc = NoKtrc

\* the driver runs on; the IP completes what it was given and gathers random
Fairness ==
  /\ WF_vars(DriverStep)
  /\ WF_vars(HwComplete)
  /\ WF_vars(HwGatherRandom)

SpecLive == InitLive /\ [][Next]_vars /\ Fairness

----------------------------------------------------------------------------
(* The transfer functions on their own: ip_ecc_write_bignum and              *)
(* ip_ecc_read_bignum called with any buffer and any length, on an IP whose  *)
(* nn is dynamic (R_PRIME_SIZE) or static (NN_MAX)                           *)

\* NN_MAX (bits) of the IP, greater than its current nn
NnMaxBits == 40

\* the bytes of a caller's number of n bytes, all different
Bytes(n) == [i \in 1..n |-> 10 + i]

\* byte lengths given to the transfer functions
BnSizes == {0, 1, BigSz, (2 * BigSz) - 1}

BnCalls ==
  { [NoApi EXCEPT !.f = "ip_ecc_write_bignum", !.reg = c[1],
                  !.x = [null |-> c[3], bytes |-> IF c[3] THEN <<>> ELSE Bytes(c[2]),
                         sz |-> c[2]]] :
      c \in {"R0_X", "SCALAR"} \X BnSizes \X BOOLEAN }
  \cup
  { [NoApi EXCEPT !.f = "ip_ecc_read_bignum", !.reg = c[1], !.out_sz = c[2],
                  !.out_null = c[3]] :
      c \in {"R1_X", "TOKEN"} \X BnSizes \X BOOLEAN }

\* the call, and the value the function returns
BnBody(a) ==
  CASE a.f = "ip_ecc_write_bignum" -> <<OpWriteBignum("x", a.reg), OpReturn(0)>>
    [] a.f = "ip_ecc_read_bignum" ->
         <<OpReadBignum(IF a.out_null THEN NULL ELSE "out_x", a.reg), OpReturn(0)>>

BnCall ==
  /\ phase = "idle"
  /\ \E a \in BnCalls :
       /\ api' = a
       /\ prog' = BnBody(a)
       /\ mem' = MemInit(a)
       /\ entry' = EntryOf(hw, MemInit(a))
  /\ loc' = LocInit(hw)
  /\ phase' = "running"
  /\ trace' = <<>>
  /\ polled' = FALSE
  /\ rndSeen' = "none"
  /\ UNCHANGED <<ktrc, noted, xfer, hw, setup, ret>>

HwInitBn ==
  { [h EXCEPT !.nnmax = NnMaxBits, !.nndyn = d] :
      h \in {g \in HwInit : ~g.r0null /\ ~g.r1null /\ ~g.secure}, d \in BOOLEAN }

InitBn ==
  /\ hw \in HwInitBn
  /\ setup = 0
  /\ phase = "idle"
  /\ api = NoApi
  /\ prog = <<>>
  /\ loc = LocInit(hw)
  /\ mem = MemInit(NoApi)
  /\ ret = 0
  /\ polled = FALSE
  /\ rndSeen = "none"
  /\ entry = EntryOf(hw, MemInit(NoApi))
  /\ trace = <<>>
  /\ xfer = NoXfer
  /\ noted = NoNote
  /\ ktrc = NoKtrc

NextBn ==
  \/ BnCall
  \/ Call
  \/ BusyWait
  \/ RndWait
  \/ SetReg
  \/ ReadData
  \/ CheckError
  \/ Scatter
  \/ GotoErr
  \/ Return
  \/ Retire
  \/ HwComplete
  \/ HwGatherRandom

SpecBn == InitBn /\ [][NextBn]_vars

----------------------------------------------------------------------------
(* ip_ecc_select_reg on its own *)

\* the values of ip_ecc_regid, and one that is none of them
RegIds == {"A", "B", "P", "Q", "R0_X", "R0_Y", "R1_X", "R1_Y", "SCALAR", "TOKEN", "OTHER"}

\* the values of ip_ecc_rw, and one that is none of them
RwIds == {"READ", "WRITE", "OTHER"}

\* ip_ecc_select_reg(r, rw) is called
SelCall ==
  /\ phase = "idle"
  /\ \E r \in RegIds, rw \in RwIds :
       /\ api' = [NoApi EXCEPT !.f = "ip_ecc_select_reg", !.reg = r, !.rw = rw]
       /\ prog' = <<OpSelectReg(r, rw), OpReturn(0)>>
  /\ mem' = MemInit(NoApi)
  /\ entry' = EntryOf(hw, MemInit(NoApi))
  /\ loc' = LocInit(hw)
  /\ phase' = "running"
  /\ trace' = <<>>
  /\ polled' = FALSE
  /\ rndSeen' = "none"
  /\ UNCHANGED <<ktrc, noted, xfer, hw, setup, ret>>

InitSel ==
  /\ hw \in {h \in HwInit : ~h.r0null /\ ~h.r1null}
  /\ setup = 1
  /\ phase = "idle"
  /\ api = NoApi
  /\ prog = <<>>
  /\ loc = LocInit(hw)
  /\ mem = MemInit(NoApi)
  /\ ret = 0
  /\ polled = FALSE
  /\ rndSeen = "none"
  /\ entry = EntryOf(hw, MemInit(NoApi))
  /\ trace = <<>>
  /\ xfer = NoXfer
  /\ noted = NoNote
  /\ ktrc = NoKtrc

NextSel ==
  \/ SelCall
  \/ Call
  \/ BusyWait
  \/ SetReg
  \/ CheckError
  \/ GotoErr
  \/ Return
  \/ Retire
  \/ HwComplete

SpecSel == InitSel /\ [][NextSel]_vars

----------------------------------------------------------------------------
(* ip_ecc_unmask_with_token on its own, on buffers that may be the same *)

\* length of the longest number unmasked
UnmaskMaxBytes == 2

\* values of the bytes of the number and of the token
UnmaskByteVals == {0, 90, 255}

\* ip_ecc_unmask_with_token(in_a, a_sz, in_tok, t_sz, out_b, out_b_sz) on the
\* memory m, where in_a is the buffer named src, out_b the buffer named dst
\* (the same buffer when the names are the same), in_tok the buffer t and
\* *out_b_sz the field sz: the memory after the call and the value returned
C28_UnmaskBuffers_add(m, src, dst, a_sz, t_sz) ==
  LET RECURSIVE Loop(_, _)
      Loop(i, mm) ==
        IF i > a_sz THEN mm
        ELSE Loop(i + 1, [mm EXCEPT ![dst][i] = (mm[src][i] + mm.t[i]) % 256])
  IN IF a_sz # t_sz THEN [mem |-> m, ret |-> -1]
     ELSE [mem |-> [Loop(1, m) EXCEPT !.sz = a_sz], ret |-> 0]
UnmaskBuffers(m, src, dst, a_sz, t_sz) ==
  LET RECURSIVE Loop(_, _)
      Loop(i, mm) ==
        IF i > a_sz THEN mm
        ELSE Loop(i + 1, [mm EXCEPT ![dst][i] = XorBits(mm[src][i], mm.t[i], 8)])
  IN IF a_sz # t_sz THEN [mem |-> m, ret |-> -1]
     ELSE [mem |-> [Loop(1, m) EXCEPT !.sz = a_sz], ret |-> 0]

\* the numbers and tokens unmasked: the number in buffer a, the token in
\* buffer t, a second buffer b, and the buffer that each call is given as out_b
UnmaskInputs ==
  { [stage |-> "start", orig |-> c[1], a_sz |-> Len(c[1]), t_sz |-> Len(c[2]),
     dst1 |-> c[3], dst2 |-> c[4], ret |-> 0,
     mem |-> [a |-> c[1], t |-> c[2], b |-> Fill(UnmaskMaxBytes, 238), sz |-> 0]] :
      c \in (UNION {[1..n -> UnmaskByteVals] : n \in 0..UnmaskMaxBytes})
               \X (UNION {[1..n -> UnmaskByteVals] : n \in 0..UnmaskMaxBytes})
               \X {"a", "b"} \X {"a", "b"} }

InitUnmask ==
  /\ xfer \in UnmaskInputs
  /\ noted = NoNote
  /\ ktrc = NoKtrc
  /\ hw \in {h \in HwInit : ~h.r0null /\ ~h.r1null /\ ~h.secure}
  /\ setup = 0
  /\ phase = "idle"
  /\ api = NoApi
  /\ prog = <<>>
  /\ loc = LocInit(hw)
  /\ mem = MemInit(NoApi)
  /\ ret = 0
  /\ polled = FALSE
  /\ rndSeen = "none"
  /\ entry = EntryOf(hw, MemInit(NoApi))
  /\ trace = <<>>

\* ip_ecc_unmask_with_token(a, a_sz, t, t_sz, dst1, &sz)
UnmaskFirst ==
  /\ xfer.stage = "start"
  /\ LET r == UnmaskBuffers(xfer.mem, "a", xfer.dst1, xfer.a_sz, xfer.t_sz)
     IN xfer' = [xfer EXCEPT !.stage = IF r.ret = 0 THEN "once" ELSE "failed",
                             !.mem = r.mem, !.ret = r.ret]
  /\ UNCHANGED <<ktrc, noted, hw, setup, phase, api, prog, loc, mem, ret, polled, rndSeen, entry,
                 trace>>

\* ip_ecc_unmask_with_token(dst1, sz, t, t_sz, dst2, &sz)
UnmaskSecond ==
  /\ xfer.stage = "once"
  /\ LET r == UnmaskBuffers(xfer.mem, xfer.dst1, xfer.dst2, xfer.mem.sz, xfer.t_sz)
     IN xfer' = [xfer EXCEPT !.stage = IF r.ret = 0 THEN "twice" ELSE "failed",
                             !.mem = r.mem, !.ret = r.ret]
  /\ UNCHANGED <<ktrc, noted, hw, setup, phase, api, prog, loc, mem, ret, polled, rndSeen, entry,
                 trace>>

NextUnmask ==
  \/ UnmaskFirst
  \/ UnmaskSecond

SpecUnmask == InitUnmask /\ [][NextUnmask]_vars

----------------------------------------------------------------------------
(* A big number through the data registers, on the 32-bit and on the 64-bit  *)
(* register window.  A word is the function of its byte lanes: lane j holds  *)
(* bits 8j .. 8j+7.  The slot of the IP keeps the register values written.   *)

\* greatest byte length of a big number followed byte by byte
XferMaxBytes == 8

\* values of the bytes of the caller
XferByteVals == {1, 200}

\* bitwise OR of two naturals below 2^bits
RECURSIVE OrBits(_, _, _)
OrBits(a, b, bits) ==
  IF bits = 0 THEN 0
  ELSE (IF a % 2 = 1 \/ b % 2 = 1 THEN 1 ELSE 0) + 2 * OrBits(a \div 2, b \div 2, bits - 1)


\* (ip_ecc_word)(a[bytes_idx] << (8 * j)) for a word of ws bytes: the byte is
\* promoted to int (4 bytes) before the shift.  A shift that sets the sign bit
\* gives a negative int (two's complement), which the conversion to a longer
\* word extends with ones.  A shift by the width of int or more is undefined:
\* ub names what the build does of it, "wrap" (the count is taken modulo 32)
\* or "zero" (the bits are shifted out).
ShiftedByte(ws, byte, j, ub) ==
  LET InInt(jj) ==
        [l \in 0..(ws - 1) |->
           IF l = jj THEN byte
           ELSE IF l >= 4 /\ jj = 3 /\ byte >= 128 THEN 255
           ELSE 0]
  IN IF j < 4 THEN InInt(j)
     ELSE IF ub = "wrap" THEN InInt(j % 4)
     ELSE [l \in 0..(ws - 1) |-> 0]

\* the word number k that ip_ecc_write_bignum forms from a[1..a_sz], for a
\* word of ws bytes: w |= (ip_ecc_word)(a[bytes_idx] << (8 * j))
FormatWordLanes(ws, a, a_sz, k, ub) ==
  LET RECURSIVE Or(_, _)
      Or(j, w) ==
        IF j = ws THEN w
        ELSE LET idx == a_sz - (ws * k + j)
             IN IF idx < 1 THEN w
                ELSE Or(j + 1, [l \in 0..(ws - 1) |->
                                  OrBits(w[l], ShiftedByte(ws, a[idx], j, ub)[l], 8)])
  IN Or(0, [l \in 0..(ws - 1) |-> 0])

\* IPECC_SET_REG: the register value stored for the word w.  On the 64-bit
\* window the two halves of the word are exchanged.
IPECC_SET_REG(ws, w) ==
  IF ws = 8 THEN [l \in 0..7 |-> w[(l + 4) % 8]] ELSE w

\* IPECC_GET_REG: the word read from a register value.  On the 64-bit window
\* the value is masked with 0xffffffff.
IPECC_GET_REG(ws, r) ==
  IF ws = 8 THEN [l \in 0..7 |-> IF l < 4 THEN r[l] ELSE 0] ELSE r

\* the bytes ip_ecc_read_bignum stores from the word w, number k, in a[1..a_sz]:
\* a[bytes_idx] = (w >> (8 * j)) & 0xff
ScatterWordLanes(ws, a, a_sz, k, w) ==
  [i \in DOMAIN a |->
     LET pos == a_sz - i
     IN IF i <= a_sz /\ pos \div ws = k THEN w[pos % ws] ELSE a[i]]

\* ip_ecc_write_bignum: the register values written to W_WRITE_DATA, or
\* failure when the bytes need more words than nn does
WriteBignumWords(ws, nn, a, a_sz, ub) ==
  LET nn_size == DIV(ip_ecc_nn_bytes_from_bits_sz(nn), ws)
      curr_word_sz == DIV(a_sz, ws)
  IN IF curr_word_sz > nn_size THEN [ret |-> -1, slot |-> <<>>]
     ELSE [ret |-> 0,
           slot |-> [k \in 1..nn_size |->
                       IPECC_SET_REG(ws, FormatWordLanes(ws, a, a_sz, k - 1, ub))]]

\* ip_ecc_read_bignum: the bytes stored in a buffer of a_sz bytes from the
\* register values that R_READ_DATA gives, or failure
ReadBignumBytes(ws, nn, a_sz, slot) ==
  LET nn_size == DIV(ip_ecc_nn_bytes_from_bits_sz(nn), ws)
      curr_word_sz == DIV(a_sz, ws)
      RECURSIVE Pop(_, _)
      Pop(k, a) ==
        IF k >= nn_size THEN a
        ELSE Pop(k + 1, ScatterWordLanes(ws, a, a_sz, k, IPECC_GET_REG(ws, slot[k + 1])))
  IN IF curr_word_sz > nn_size THEN [ret |-> -1, out |-> Zeros(a_sz)]
     ELSE [ret |-> 0, out |-> Pop(0, Zeros(a_sz))]

\* the transfers followed: width of the window, nn, bytes of the caller with
\* a_sz <= ceil(nn / 8), behaviour of the build on the undefined shift
XferInputs ==
  { [stage |-> "start", ws |-> c[1], nn |-> c[2], a |-> c[3], a_sz |-> Len(c[3]), ub |-> c[4],
     slot |-> <<>>, out |-> <<>>, ret |-> 0] :
      c \in { d \in {4, 8}
                    \X ({8 * m : m \in 1..XferMaxBytes} \cup {(8 * m) - 3 : m \in 1..XferMaxBytes})
                    \X (UNION {[1..n -> XferByteVals] : n \in 0..XferMaxBytes})
                    \X {"wrap", "zero"} :
                Len(d[3]) <= ip_ecc_nn_bytes_from_bits_sz(d[2]) } }

InitXfer ==
  /\ xfer \in XferInputs
  /\ noted = NoNote
  /\ ktrc = NoKtrc
  /\ hw \in {h \in HwInit : ~h.r0null /\ ~h.r1null /\ ~h.secure}
  /\ setup = 0
  /\ phase = "idle"
  /\ api = NoApi
  /\ prog = <<>>
  /\ loc = LocInit(hw)
  /\ mem = MemInit(NoApi)
  /\ ret = 0
  /\ polled = FALSE
  /\ rndSeen = "none"
  /\ entry = EntryOf(hw, MemInit(NoApi))
  /\ trace = <<>>

\* ip_ecc_write_bignum(a, a_sz, reg): the slot keeps the words pushed
XferWrite ==
  /\ xfer.stage = "start"
  /\ LET r == WriteBignumWords(xfer.ws, xfer.nn, xfer.a, xfer.a_sz, xfer.ub)
     IN xfer' = [xfer EXCEPT !.stage = IF r.ret = 0 THEN "written" ELSE "failed",
                             !.slot = r.slot, !.ret = r.ret]
  /\ UNCHANGED <<ktrc, noted, hw, setup, phase, api, prog, loc, mem, ret, polled, rndSeen, entry,
                 trace>>

\* ip_ecc_read_bignum(out, a_sz, reg): the slot gives back the words it keeps
XferRead ==
  /\ xfer.stage = "written"
  /\ LET r == ReadBignumBytes(xfer.ws, xfer.nn, xfer.a_sz, xfer.slot)
     IN xfer' = [xfer EXCEPT !.stage = IF r.ret = 0 THEN "read" ELSE "failed",
                             !.out = r.out, !.ret = r.ret]
  /\ UNCHANGED <<ktrc, noted, hw, setup, phase, api, prog, loc, mem, ret, polled, rndSeen, entry,
                 trace>>

NextXfer ==
  \/ XferWrite
  \/ XferRead

SpecXfer == InitXfer /\ [][NextXfer]_vars

----------------------------------------------------------------------------
(* Events of the trace *)

IsWriteSelect(e) == e.reg = "W_CTRL" /\ e.val.kind = "WRITE_NB"
IsReadSelect(e) == e.reg = "W_CTRL" /\ e.val.kind = "READ_NB"
IsDispatch(e) == e.reg = "W_CTRL" /\ e.val.kind \in Commands
IsScalarSelect(e) == IsWriteSelect(e) /\ e.val.scal
IsScalarPush(e) == e.reg = "W_WRITE_DATA" /\ e.slot = "K"
IsErrorCheck(e, at) == e.reg = "check_error" /\ e.at = at
Indices(P(_)) == {i \in DOMAIN trace : P(trace[i])}

\* the next step of the driver dispatches a command
DispatchPending ==
  /\ AtOp("set_reg")
  /\ Head(prog).reg = "W_CTRL"
  /\ Head(prog).val.kind \in Commands

----------------------------------------------------------------------------
(* Properties *)

\* C1: the write-select of the scalar and every push of a word of the scalar
\* are issued only after IPECC_ENOUGH_WK_RANDOM_WAIT has seen the
\* ENOUGH_RND_WK flag set.
C1_ScalarGatedOnRandom ==
  \A i \in DOMAIN trace :
    (IsScalarSelect(trace[i]) \/ IsScalarPush(trace[i])) => trace[i].rnd = "set"

\* a scalar has been selected and pushed by hw_driver_mul
C1_ScalarWritten ==
  /\ api.f = "hw_driver_mul"
  /\ \E i \in DOMAIN trace : IsScalarSelect(trace[i])
  /\ \E i \in DOMAIN trace : IsScalarPush(trace[i])

\* C2: in every point operation, when the command is about to be dispatched
\* (every step before it has succeeded), the null flags of R0 and R1 have the
\* values they had at entry of the call.
C2_NullFlagsPreserved ==
  (DispatchPending /\ api.f \in PointApis)
    => (hw.r0null = entry.r0null /\ hw.r1null = entry.r1null)

\* a dispatch is pending after coordinates were pushed to a point that was
\* null at entry
C2_RestoredAfterWrite ==
  /\ DispatchPending
  /\ api.f = "hw_driver_mul"
  /\ entry.r1null
  /\ \E i \in DOMAIN trace : trace[i].reg = "W_WRITE_DATA" /\ trace[i].slot = "R1"

\* C5: whenever an exported function has returned, the error field of
\* R_STATUS is zero.
C5_NoErrorLeftAtReturn ==
  (phase = "returned") => IPECC_GET_ERROR(hw) = {}

\* hw_driver_set_small_scalar_size has returned and the error raised by its
\* register write shows in R_STATUS
C5_StaleError ==
  /\ phase = "returned"
  /\ api.f = "hw_driver_set_small_scalar_size"
  /\ ret = 0
  /\ IPECC_ERR_COMP \in IPECC_GET_ERROR(hw)

\* C6: a step of ip_ecc_check_error that reads a non-zero error field E writes
\* exactly E to W_ERR_ACK and fails, and the IP clears exactly the bits of E;
\* a step that reads zero writes nothing and succeeds.
C6_CheckErrorStep ==
  (AtOp("check_error") /\ prog' # prog) =>
    LET E == IPECC_GET_ERROR(hw)
        at == Head(prog).at
    IN IF E # {}
         THEN /\ Len(trace') = Len(trace) + 2
              /\ trace'[Len(trace')].reg = "W_ERR_ACK"
              /\ trace'[Len(trace')].val = E
              /\ hw' = [hw EXCEPT !.err = hw.err \ E]
              /\ prog' = Failed
         ELSE /\ Len(trace') = Len(trace) + 1
              /\ trace'[Len(trace')].reg = "check_error"
              /\ hw' = hw
              /\ prog' = Tail(prog)

C6_CheckError == [][C6_CheckErrorStep]_vars

\* ip_ecc_check_error has acknowledged the error vector it read
C6_Acked ==
  /\ Len(trace) >= 2
  /\ trace[Len(trace)].reg = "W_ERR_ACK"
  /\ trace[Len(trace)].val = {IPECC_ERR_COMP}
  /\ trace[Len(trace) - 1].reg = "check_error"
  /\ trace[Len(trace) - 1].val = {IPECC_ERR_COMP}
  /\ IPECC_GET_ERROR(hw) = {}
  /\ prog = Failed

Before(A, B) == \A a \in A, b \in B : a < b
IsTokenSelect(e) == IsReadSelect(e) /\ e.val.token
IsPop(e) == e.reg = "R_READ_DATA"
IsTokenGen(e) == e.reg = "W_TOKEN"
IsR1Push(e) == e.reg = "W_WRITE_DATA" /\ e.slot = "R1"
IsR1XSelect(e) == IsWriteSelect(e) /\ ~e.val.scal /\ e.val.addr = IPECC_BNUM_R1_X
IsR1YSelect(e) == IsWriteSelect(e) /\ ~e.val.scal /\ e.val.addr = IPECC_BNUM_R1_Y
IsResultSelect(e) ==
  IsReadSelect(e) /\ ~e.val.token /\ e.val.addr \in {IPECC_BNUM_R1_X, IPECC_BNUM_R1_Y}
IsUnmask(e) == e.reg = "unmask"
IsCommandChecked(e) == IsErrorCheck(e, "ip_ecc_exec_command") /\ e.val = {}

\* the bytes that the words popped at the indices S of the trace, taken in
\* order, give in a buffer of the size of acc
RECURSIVE ScatterAll(_, _, _)
ScatterAll(S, k, acc) ==
  IF S = {} THEN acc
  ELSE LET j == CHOOSE m \in S : \A n \in S : m <= n
       IN ScatterAll(S \ {j}, k + 1, ScatterWord(acc, Len(acc), k, trace[j].val))

\* the token read from the IP in this call: the words popped before the scalar
\* is selected
TokenRead ==
  ScatterAll({j \in Indices(IsPop) : Before({j}, Indices(IsScalarSelect))}, 0,
             Zeros(NnBytes(hw)))

TokenRetrieved ==
  \E i \in DOMAIN trace : IsErrorCheck(trace[i], "ip_ecc_get_token") /\ trace[i].val = {}

\* C8: when hw_driver_mul returns after the token was retrieved, its local
\* copy of the token is zero.
C8_TokenZeroedAtReturn ==
  (phase = "returned" /\ api.f = "hw_driver_mul" /\ TokenRetrieved)
    => loc.token = Zeros(NnBytes(hw))

\* hw_driver_mul has returned and has zeroed a token that was not zero
C8_TokenCleared ==
  /\ phase = "returned"
  /\ api.f = "hw_driver_mul"
  /\ ret = 0
  /\ TokenRead # Zeros(NnBytes(hw))
  /\ loc.token = Zeros(NnBytes(hw))

\* C9: when neg, dbl, add or mul returns failure, the output buffers and the
\* output sizes of the caller have their values of entry.
C9_OutputsUntouchedOnFailure ==
  (phase = "returned" /\ ret = -1 /\ api.f \in ResultApis)
    => /\ mem.out_x = entry.mem.out_x
       /\ mem.out_y = entry.mem.out_y
       /\ mem.out_x_sz = entry.mem.out_x_sz
       /\ mem.out_y_sz = entry.mem.out_y_sz

\* a call has failed after it has read the X coordinate of the result
C9_PartialResult ==
  /\ phase = "returned"
  /\ ret = -1
  /\ api.f \in ResultApis
  /\ mem.out_x # entry.mem.out_x

\* the command that each point operation runs
CommandOf(f) ==
  CASE f = "hw_driver_is_on_curve" -> "PT_CHK"
    [] f = "hw_driver_eq" -> "PT_EQU"
    [] f = "hw_driver_opp" -> "PT_OPP"
    [] f = "hw_driver_neg" -> "PT_NEG"
    [] f = "hw_driver_dbl" -> "PT_DBL"
    [] f = "hw_driver_add" -> "PT_ADD"
    [] f = "hw_driver_mul" -> "PT_KP"

\* C10: a call of ip_ecc_exec_command dispatches its command at most once,
\* exactly once when it succeeds, and only after a poll that saw busy clear;
\* the result flag is read only after a later poll saw busy clear and the
\* error check passed.
C10_ExecCommand ==
  (api.f \in PointApis) =>
    /\ Cardinality(Indices(IsDispatch)) <= 1
    /\ \A i \in Indices(IsDispatch) :
         trace[i].gated /\ trace[i].val.kind = CommandOf(api.f)
    /\ \A r \in DOMAIN trace :
         (trace[r].reg = "R_STATUS_YES") =>
           /\ trace[r].gated
           /\ \E i \in Indices(IsDispatch), c \in Indices(IsCommandChecked) :
                i < c /\ c < r /\ trace[i].val.kind \in FlagCommands
    /\ (phase = "returned" /\ ret = 0) => Cardinality(Indices(IsDispatch)) = 1

\* a flag operation has returned the flag read after its command
C10_FlagRead ==
  /\ phase = "returned"
  /\ api.f = "hw_driver_eq"
  /\ ret = 0
  /\ mem.flag = 1
  /\ \E r \in DOMAIN trace : trace[r].reg = "R_STATUS_YES"

----------------------------------------------------------------------------
(* The debug surface in secure mode *)

IsRegWrite(e) == e.reg \in WriteRegs

\* C3: once the driver is initialised, a debug function (halting, breakpoints,
\* stepping and resuming, opcode and microcode patching, TRNG raw access and
\* diagnostics) called while the capability register reports secure mode
\* writes no register, and the value it returns is failure.
C3_DebugRefusedInSecureMode ==
  (phase \in {"running", "returned"} /\ api.f \in DebugApis /\ entry.setup = 1 /\ hw.secure)
    => /\ \A i \in DOMAIN trace : ~IsRegWrite(trace[i])
       /\ prog # <<>> => Head(prog).op \in {"call", "secure_check", "return"}
       /\ phase = "returned" => ret = -1

\* a debug function has returned failure to an initialised driver in secure mode
C3_DebugRefused ==
  /\ phase = "returned"
  /\ api.f \in DebugApis
  /\ entry.setup = 1
  /\ hw.secure
  /\ ret = -1
  /\ trace = <<>>

\* the registers C4 names: attack configuration, microcode opcode, AXI scalar
\* masking, shift-register masking
AttackRegs ==
  {"W_ATTACK_CFG_0", "W_DBG_OP_WADDR", "W_DBG_OPCODE", "W_DBG_CFG_AXIMSK", "W_ATTACK_CFG_1"}

\* C4: hw_driver_attack_set_level, called while the capability register reports
\* secure mode, writes none of the attack configuration register, the
\* microcode, the AXI masking control and the shift-register masking control,
\* and the value it returns is failure.
C4_AttackLevelRefusedInSecureMode ==
  (phase \in {"running", "returned"} /\ api.f = "hw_driver_attack_set_level" /\ hw.secure)
    => /\ \A i \in DOMAIN trace : trace[i].reg \notin AttackRegs
       /\ phase = "returned" => ret = -1

\* hw_driver_attack_set_level has returned success in secure mode, having
\* written the attack configuration and the microcode
C4_AttackLevelSetInSecureMode ==
  /\ phase = "returned"
  /\ api.f = "hw_driver_attack_set_level"
  /\ hw.secure
  /\ ret = 0
  /\ \E i \in DOMAIN trace : trace[i].reg = "W_ATTACK_CFG_0"
  /\ \E i \in DOMAIN trace : trace[i].reg = "W_DBG_OPCODE"

----------------------------------------------------------------------------
(* Termination *)

\* C11: with an IP that completes every operation and whose ENOUGH_RND_WK flag
\* rises and stays set, every call of a nominal function returns.
C11_NominalCallTerminates == (phase = "running") ~> (phase = "returned")

\* hw_driver_mul polls ENOUGH_RND_WK before the write of its scalar, and the
\* flag is set for good
C11_SpinsOnRandom ==
  /\ AtOp("rnd_wait")
  /\ api.f = "hw_driver_mul"
  /\ hw.rnd
  /\ hw.sticky

----------------------------------------------------------------------------
(* Round trip of a big number *)

\* C12: on both windows, the bytes read back by ip_ecc_read_bignum from a slot
\* that keeps the words ip_ecc_write_bignum pushed are the bytes written.
C12_RoundTrip == (xfer.stage = "read") => (xfer.out = xfer.a)

\* a number of more than one 32-bit word has come back as written
C12_RoundTrip32Done ==
  /\ xfer.stage = "read"
  /\ xfer.ws = 4
  /\ xfer.a_sz > 4
  /\ xfer.out = xfer.a

----------------------------------------------------------------------------
(* The transfer functions *)

\* a call of ip_ecc_write_bignum or ip_ecc_read_bignum is in progress or has
\* returned; its buffer, its byte length
InTransferCall ==
  /\ phase \in {"running", "returned"}
  /\ api.f \in {"ip_ecc_write_bignum", "ip_ecc_read_bignum"}
TransferIsNull == IF api.f = "ip_ecc_write_bignum" THEN api.x.null ELSE api.out_null
TransferLength == IF api.f = "ip_ecc_write_bignum" THEN api.x.sz ELSE api.out_sz

\* N = ceil(ceil(nn / 8) / word size), nn as the IP gives it
WordsOfNn == DIV(DIV(IF hw.nndyn THEN hw.nn ELSE hw.nnmax, 8), sizeof_ip_ecc_word)
TransferTooLong == DIV(TransferLength, sizeof_ip_ecc_word) > WordsOfNn

IsPush(e) == e.reg = "W_WRITE_DATA"

\* byte j (0 = least significant) of the 32-bit word w
ByteOf(w, j) == (w \div Pow2(8 * j)) % 256

\* the accesses of a transfer that has succeeded: one select, then N words;
\* the push number k carries, least significant byte first, the bytes
\* a[a_sz - 4k], a[a_sz - 4k - 1], ... of the caller, and zero beyond a[1]
TransferShape ==
  IF api.f = "ip_ecc_write_bignum"
    THEN /\ Cardinality(Indices(IsWriteSelect)) = 1
         /\ Cardinality(Indices(IsPush)) = WordsOfNn
         /\ Before(Indices(IsWriteSelect), Indices(IsPush))
         /\ Indices(IsReadSelect) = {} /\ Indices(IsPop) = {}
         /\ \A i \in Indices(IsPush) :
              LET k == Cardinality({p \in Indices(IsPush) : p < i})
              IN \A j \in 0..(sizeof_ip_ecc_word - 1) :
                   LET idx == api.x.sz - ((sizeof_ip_ecc_word * k) + j)
                   IN ByteOf(trace[i].val, j) = IF idx >= 1 THEN api.x.bytes[idx] ELSE 0
    ELSE /\ Cardinality(Indices(IsReadSelect)) = 1
         /\ Cardinality(Indices(IsPop)) = WordsOfNn
         /\ Before(Indices(IsReadSelect), Indices(IsPop))
         /\ Indices(IsWriteSelect) = {} /\ Indices(IsPush) = {}

IsTransaction(e) == e.reg = "W_CTRL" \/ IsPush(e) \/ IsPop(e)
TransactionOf(e) ==
  CASE e.reg = "W_CTRL" -> "ip_ecc_select_reg"
    [] IsPush(e) -> "ip_ecc_push_word"
    [] IsPop(e) -> "ip_ecc_pop_word"

\* C15: in a transfer, the access of every select, push and pop follows a
\* poll that saw busy clear; the next thing the transaction does is to poll
\* busy again and to check the error vector; when the vector is not zero the
\* transaction fails and no access follows.
C15_Transactions ==
  InTransferCall =>
    \A i \in DOMAIN trace :
      IsTransaction(trace[i]) =>
        /\ trace[i].gated
        /\ IF i = Len(trace)
             THEN /\ phase = "running"
                  /\ prog # <<>>
                  /\ Head(prog).op \in {"busy_wait", "check_error"}
                  /\ Head(prog).op = "check_error" => polled
             ELSE /\ IsErrorCheck(trace[i + 1], TransactionOf(trace[i]))
                  /\ trace[i + 1].gated
                  /\ trace[i + 1].val # {} =>
                       /\ Len(trace) = i + 2
                       /\ trace[i + 2].reg = "W_ERR_ACK"
                       /\ \/ phase = "running" /\ prog = Failed
                          \/ phase = "returned" /\ ret = -1

\* a write of two words has stopped at its first word, on an error
C15_StoppedAtWord ==
  /\ phase = "returned"
  /\ ret = -1
  /\ api.f = "ip_ecc_write_bignum"
  /\ WordsOfNn = 2
  /\ Cardinality(Indices(IsPush)) = 1
  /\ trace[Len(trace)].reg = "W_ERR_ACK"

----------------------------------------------------------------------------
(* Sizes of the results *)

\* ceil(nn / 8), nn as the IP gives it
BytesOfNn == DIV(IF hw.nndyn THEN hw.nn ELSE hw.nnmax, 8)

\* C16: neg, dbl, add and mul return failure when one of the caller's output
\* sizes is smaller than ceil(nn / 8); when they return success both output
\* sizes are ceil(nn / 8).
C16_OutputSizes ==
  (phase = "returned" /\ api.f \in ResultApis) =>
    /\ (entry.mem.out_x_sz < BytesOfNn \/ entry.mem.out_y_sz < BytesOfNn) => ret = -1
    /\ ret = 0 => (mem.out_x_sz = BytesOfNn /\ mem.out_y_sz = BytesOfNn)

\* a call has got as far as the check of the sizes and failed there, for its
\* second size only
C16_SecondSizeRefused ==
  /\ phase = "returned"
  /\ api.f = "hw_driver_add"
  /\ ret = -1
  /\ entry.mem.out_x_sz = BytesOfNn
  /\ entry.mem.out_y_sz < BytesOfNn
  /\ \E i \in DOMAIN trace : IsCommandChecked(trace[i])
  /\ Indices(IsReadSelect) = {}

----------------------------------------------------------------------------
(* Patches of the microcode *)

\* the registers of a patch: address of the opcode, opcode
PatchRegs == {"W_DBG_OP_WADDR", "W_DBG_OPCODE"}

\* the IP has been busy and not halted since the call was entered: it is so
\* now, and the call (of an initialised driver) has written nothing that
\* starts an operation
BusyNotHaltedThroughout ==
  /\ phase \in {"running", "returned"}
  /\ entry.setup = 1
  /\ hw.busy
  /\ ~hw.halted
  /\ \A i \in DOMAIN trace : trace[i].reg \in DebugRegs

\* C17: hw_driver_patch_one_opcode_DBG, called while the IP is busy and not
\* halted, writes neither the address nor the opcode, and returns failure.
C17_BusyPatchRefused ==
  (api.f = "hw_driver_patch_one_opcode_DBG" /\ BusyNotHaltedThroughout)
    => /\ \A i \in DOMAIN trace : trace[i].reg \notin PatchRegs
       /\ phase = "returned" => ret = -1

\* a patch asked of a busy IP has written nothing, and the caller is told
\* that it succeeded
C17_BusyPatchAccepted ==
  /\ api.f = "hw_driver_patch_one_opcode_DBG"
  /\ BusyNotHaltedThroughout
  /\ ~hw.secure
  /\ api.opsz = 1
  /\ api.address = DEBUG_ECC_IRAM_RANDOM_PHI0_ADDR
  /\ phase = "returned"
  /\ ret = 0
  /\ trace = <<>>

\* C18: when hw_driver_attack_set_level(L) has returned success, the attack
\* configuration register, the opcodes at the five patched addresses, the AXI
\* masking of the scalar and the nnrndsf masking are those that the same level
\* left when it was set before, whatever was selected in between
C18_PresetDeterminedByLevel ==
  (LevelIsSet /\ noted # NoNote /\ noted[1].level = api.level)
    => (AttackCfg(hw) = noted[1].cfg)

\* level 2 has been set twice, and has left the nnrndsf masking off the first
\* time and on the second time
C18_SameLevelOtherMasking ==
  /\ LevelIsSet
  /\ api.level = 2
  /\ ~hw.secure
  /\ noted # NoNote
  /\ noted[1].level = 2
  /\ noted[1].cfg.cfg1 = 1
  /\ hw.atk.cfg1 = 0
  /\ [noted[1].cfg EXCEPT !.cfg1 = 0] = AttackCfg(hw)

\* the exported functions that do nothing but call ip_ecc_run_opcodes and
\* ip_ecc_single_step once the driver is set up and the IP is seen unsecure
StepApis == {"hw_driver_run_opcodes_DBG", "hw_driver_single_step_DBG"}

\* the writes of the step register in the call in progress
StepWrites == {i \in DOMAIN trace : trace[i].reg = "W_DBG_STEPS"}

\* hw_driver_resume_DBG calls ip_ecc_resume when the driver is set up and the
\* capability register does not report secure mode
ResumeCalled == setup = 1 /\ ~hw.secure

\* C19: ip_ecc_run_opcodes and ip_ecc_single_step, called on an IP that does
\* not report debug-halted, return failure and the step register is not
\* written; ip_ecc_resume, whenever it is called, writes the resume command in
\* the step register, once, and returns success, the IP halted or not.
C19_StepAndResume ==
  /\ (phase \in {"running", "returned"} /\ api.f \in StepApis /\ ~entry.halted)
       => /\ StepWrites = {}
          /\ phase = "returned" => ret = -1
  /\ (phase = "returned" /\ api.f = "hw_driver_resume_DBG" /\ ResumeCalled)
       => /\ ret = 0
          /\ Cardinality(StepWrites) = 1
          /\ trace[Len(trace)].reg = "W_DBG_STEPS"
          /\ trace[Len(trace)].val = IPECC_RESUME

\* hw_driver_run_opcodes_DBG, called with the driver set up on an unsecure IP
\* that was not halted, has returned failure and has written nothing
C19_StepRefused ==
  /\ phase = "returned"
  /\ api.f = "hw_driver_run_opcodes_DBG"
  /\ ~hw.secure
  /\ entry.setup = 1
  /\ ~entry.halted
  /\ ret = -1
  /\ trace = <<>>

\* C20: setting or removing a breakpoint, on a driver that is set up and an
\* unsecure IP, never waits for the busy flag, whatever the IP is doing: the
\* call is never at IPECC_BUSY_WAIT and no access of it follows a poll, it
\* writes nothing but W_DBG_BKPT, and it returns success having written it once,
\* also when the IP is debug-halted with busy set.
C20_BreakpointNoBusyWait ==
  (phase \in {"running", "returned"} /\ api.f \in BkptApis /\ entry.setup = 1 /\ ~hw.secure)
    => /\ ~polled
       /\ prog # <<>> => Head(prog).op # "busy_wait"
       /\ \A i \in DOMAIN trace : trace[i].reg = "W_DBG_BKPT" /\ ~trace[i].gated
       /\ Len(trace) <= 1
       /\ phase = "returned" => (ret = 0 /\ Len(trace) = 1)

\* a breakpoint has been set, with one write and success, on an IP that is
\* debug-halted in the course of an operation, busy set
C20_SetWhileHaltedBusy ==
  /\ phase = "returned"
  /\ api.f = "hw_driver_set_breakpoint_DBG"
  /\ entry.setup = 1
  /\ entry.halted
  /\ hw.halted
  /\ hw.busy
  /\ ret = 0
  /\ Len(trace) = 1
  /\ trace[1].reg = "W_DBG_BKPT"
  /\ trace[1].val.en

----------------------------------------------------------------------------
(* The traced [k]P *)

\* kp_debug_trace is being run or has returned
InKpTrace == api.f = "kp_debug_trace" /\ phase \in {"running", "returned"}

\* register accesses of the current call of kp_debug_trace
KpBkptSet == {i \in DOMAIN trace : trace[i].reg = "W_DBG_BKPT" /\ trace[i].val.en}
KpBkptRemoved ==
  {i \in DOMAIN trace : trace[i].reg = "W_DBG_BKPT" /\ ~trace[i].val.en /\ trace[i].val.id = 0}
KpResumes == {i \in DOMAIN trace : trace[i].reg = "W_DBG_STEPS" /\ trace[i].val.resume}
KpSteps == {i \in DOMAIN trace : trace[i].reg = "W_DBG_STEPS" /\ trace[i].val.run}
KpLoopReads == {i \in DOMAIN trace : trace[i].reg = "R_DBG_STATUS" /\ trace[i].at = "step"}

\* C21: when kp_debug_trace returns after it has set its breakpoint, with
\* success or on a mismatch of the program counter or of the state of the FSM,
\* it has written the removal of breakpoint 0 and the resume command, and
\* breakpoint 0 is not set in the IP.
C21_BreakpointRemovedOnReturn ==
  (InKpTrace /\ phase = "returned" /\ KpBkptSet # {})
    => /\ \E i \in KpBkptRemoved : \A j \in KpBkptSet : j < i
       /\ \E i \in KpResumes : \A j \in KpBkptSet : j < i
       /\ 0 \notin hw.dbg.bkpt

\* kp_debug_trace has returned failure on a mismatch: breakpoint 0 is still set
\* and the IP is still halted, busy with the [k]P it was given
C21_ReturnOnMismatch ==
  /\ InKpTrace /\ phase = "returned" /\ ret = -1
  /\ KpBkptSet # {} /\ KpBkptRemoved = {} /\ KpResumes = {}
  /\ 0 \in hw.dbg.bkpt /\ hw.halted /\ hw.busy

\* C22: the length of the message of the trace never exceeds the maximum that
\* the caller has declared for the buffer, and the warning is printed at most
\* once.
C22_TraceWithinBuffer ==
  ~ktrc.null => /\ ktrc.msgsz <= ktrc.msgsz_max
                /\ ktrc.warnings <= 1

\* a line has been written past the end of a buffer larger than the margin of
\* 32 bytes that kp_trace_msg_append keeps
C22_LinePastEnd ==
  /\ InKpTrace /\ ~ktrc.null
  /\ ktrc.msgsz_max >= 32
  /\ ktrc.msgsz > ktrc.msgsz_max

\* the status read i shows the IP about to run the last opcode of the
\* curve-check routine in the exit state
AtExit(i) == trace[i].val.pc = "CHKCURVE_OPLAST" /\ trace[i].val.state = "EXIT"

\* the step kp_debug_trace takes writes the single-step command
KpStepIssued ==
  /\ InKpTrace
  /\ AtOp("set_reg")
  /\ Head(prog).reg = "W_DBG_STEPS"
  /\ Head(prog).val.run

\* C23: kp_debug_trace writes each single-step command on an IP that is
\* halted; no single-step command follows a status read of the loop that shows
\* the last opcode of the curve-check routine in the exit state, and the end of
\* the loop (the removal of the breakpoint, the resume command, the return of
\* success) comes only after such a read, which is the last read of the loop.
C23_StepLoop ==
  /\ KpStepIssued => hw.halted
  /\ InKpTrace =>
       /\ \A i \in KpLoopReads : AtExit(i) => \A j \in KpSteps : j < i
       /\ (KpBkptRemoved # {} \/ KpResumes # {} \/ (phase = "returned" /\ ret = 0))
            => /\ KpLoopReads # {}
               /\ \A i \in KpLoopReads :
                    AtExit(i) <=> (\A j \in KpLoopReads : j <= i)
       /\ \A i \in KpLoopReads : Cardinality({j \in KpSteps : j < i}) =
                                    Cardinality({j \in KpLoopReads : j <= i})

\* kp_debug_trace has returned success after two steps, the first of which did
\* not reach the exit point
C23_ExitAtSecondStep ==
  /\ InKpTrace /\ phase = "returned" /\ ret = 0
  /\ Cardinality(KpSteps) = 2
  /\ Cardinality(KpLoopReads) = 2

----------------------------------------------------------------------------
(* The lazy setup *)

\* driver_setup is about to call hw_driver_setup
SetupStep == AtOp("hw_driver_setup")

\* driver_setup is about to write the soft reset
SetupReset == AtOp("set_reg") /\ Head(prog).reg = "W_SOFT_RESET" /\ api.f # "hw_driver_reset"

\* C24: once hw_driver_setup_state is set it stays set, and from then on no
\* function comes to the call of hw_driver_setup or to the soft reset of
\* driver_setup; when hw_driver_setup fails the flag stays clear, and a function
\* that called driver_setup and returns with the flag clear returns failure.
C24_SetupOnce ==
  [][ /\ setup = 1 => setup' = 1
      /\ setup' = 1 => (~SetupStep' /\ ~SetupReset')
      /\ (SetupStep /\ prog' = Failed) => setup' = 0
      /\ (phase' = "returned" /\ setup' = 0 /\ api'.f # "hw_driver_reset") => ret' = -1
    ]_vars

\* a function called with the flag set has written registers and returned
\* success
C24_LaterCallDone ==
  /\ phase = "returned"
  /\ entry.setup = 1
  /\ setup = 1
  /\ ret = 0
  /\ trace # <<>>

\* ipecc_baddr holds the address that hw_driver_setup has given
BaseResolved == setup = 1 \/ loc.baddr

\* C29: a function of the API accesses a register only after hw_driver_setup
\* has succeeded, in this call or in an earlier one, and a function that
\* returns with hw_driver_setup_state clear returns failure.
C29_SetupBeforeAccess ==
  (phase \in {"running", "returned"})
    => /\ trace # <<>> => BaseResolved
       /\ (phase = "returned" /\ setup = 0) => ret = -1

\* hw_driver_reset has written the soft reset and returned success with the
\* driver not set up
C29_ResetWithoutSetup ==
  /\ phase = "returned"
  /\ api.f = "hw_driver_reset"
  /\ setup = 0
  /\ ret = 0
  /\ \E i \in DOMAIN trace : trace[i].reg = "W_SOFT_RESET"

----------------------------------------------------------------------------
(* The filling time of the raw FIFO *)

\* the polls of the FULL bit of the raw FIFO in the current call
FifoPolls == {i \in DOMAIN trace : trace[i].reg = "R_DBG_TRNG_STATUS" /\ trace[i].at = "full"}

\* C25: ip_ecc_get_trng_raw_fifo_filling_time polls the FULL bit of the raw
\* FIFO at most WatchdogMax times (0x1000000 in the code); only the last poll can
\* show the FIFO full; it stops polling after WatchdogMax polls that did not, and
\* the function then returns failure.
C25_FillTimeBounded ==
  (phase \in {"running", "returned"}
     /\ api.f = "hw_driver_get_trng_raw_fifo_filling_time_DBG")
    => /\ Cardinality(FifoPolls) <= WatchdogMax
       /\ \A i \in FifoPolls : trace[i].val => (\A j \in FifoPolls : j <= i)
       /\ (Cardinality(FifoPolls) = WatchdogMax /\ \A i \in FifoPolls : ~trace[i].val)
            => /\ phase = "running" => Head(prog).op \in {"fifo_full_wait", "return"}
               /\ phase = "returned" => ret = -1
       /\ (phase = "returned" /\ ret = 0) => \E i \in FifoPolls : trace[i].val

\* the measure has returned failure after WatchdogMax polls, none of which
\* showed the FIFO full
C25_WatchdogRanOut ==
  /\ phase = "returned"
  /\ api.f = "hw_driver_get_trng_raw_fifo_filling_time_DBG"
  /\ ret = -1
  /\ Cardinality(FifoPolls) = WatchdogMax
  /\ \A i \in FifoPolls : ~trace[i].val

----------------------------------------------------------------------------
(* The 64-bit window *)

\* the word of 64 bits w with its two halves of 32 bits exchanged
SwapHalves(w) == [l \in 0..7 |-> w[(l + 4) % 8]]

\* the word number k that ip_ecc_write_bignum gives to IPECC_SET_REG
XferWord(k) == FormatWordLanes(xfer.ws, xfer.a, xfer.a_sz, k - 1, xfer.ub)

\* C26: on the 64-bit window, the register value of a set has the low half of
\* the word as its high 32 bits and the high half as its low 32 bits, a get
\* gives the register value with its halves exchanged in the same way, and
\* so a get of the register value that a set has stored gives the word back.
C26_BothDirectionsReverse ==
  (xfer.ws = 8 /\ xfer.stage \in {"written", "read"})
    => \A k \in DOMAIN xfer.slot :
         /\ \A l \in 0..3 : /\ xfer.slot[k][l + 4] = XferWord(k)[l]
                             /\ xfer.slot[k][l] = XferWord(k)[l + 4]
         /\ IPECC_GET_REG(8, xfer.slot[k]) = SwapHalves(xfer.slot[k])
         /\ IPECC_GET_REG(8, xfer.slot[k]) = XferWord(k)

\* on the 64-bit window a word that is not zero has been set with its halves
\* exchanged, and the get of the register value gives zero
C26_GetMasks ==
  /\ xfer.ws = 8
  /\ xfer.stage = "read"
  /\ \E k \in DOMAIN xfer.slot :
       /\ xfer.slot[k] = SwapHalves(XferWord(k))
       /\ XferWord(k) # [l \in 0..7 |-> 0]
       /\ IPECC_GET_REG(8, xfer.slot[k]) = [l \in 0..7 |-> 0]

----------------------------------------------------------------------------
(* Selection of a big number *)

\* the values that the current call of ip_ecc_select_reg has written in W_CTRL
SelWrites == {trace[i].val : i \in {j \in DOMAIN trace : trace[j].reg = "W_CTRL"}}

\* C27: ip_ecc_select_reg for writing SCALAR writes the index of R0_X with the
\* scalar flag; for writing any other big number, R0_X too, it writes the flag
\* deasserted; the token flag is written asserted for reading TOKEN and in no
\* other case.
C27_SelectFlags ==
  (api.f = "ip_ecc_select_reg" /\ phase \in {"running", "returned"})
    => \A v \in SelWrites :
         /\ (api.rw = "WRITE" /\ api.reg = "SCALAR")
              => (v.kind = "WRITE_NB" /\ v.addr = IPECC_BNUM_R0_X /\ v.scal)
         /\ (api.rw = "WRITE" /\ api.reg = "R0_X")
              => (v.kind = "WRITE_NB" /\ v.addr = IPECC_BNUM_R0_X /\ ~v.scal)
         /\ v.scal <=> (api.rw = "WRITE" /\ api.reg = "SCALAR")
         /\ v.token <=> (api.rw = "READ" /\ api.reg = "TOKEN")

\* R0_X has been selected for writing: same index as the scalar, flag
\* deasserted
C27_R0XSelected ==
  /\ api.f = "ip_ecc_select_reg" /\ phase = "returned" /\ ret = 0
  /\ api.rw = "WRITE" /\ api.reg = "R0_X"
  /\ \E v \in SelWrites : v.addr = IPECC_BNUM_K /\ ~v.scal /\ ~v.token

----------------------------------------------------------------------------
(* Unmasking with the token *)

\* the first n bytes of the buffer b
Prefix(b, n) == [i \in 1..n |-> b[i]]

\* C28: when the number and the token have the same length, two calls of
\* ip_ecc_unmask_with_token with the same token, each with an output buffer
\* that is its input buffer or another one, succeed and leave the number in
\* the output of the second; when the lengths differ the call returns failure
\* and has written neither the output buffer nor its size.
C28_UnmaskTwice ==
  /\ (xfer.stage \in {"once", "twice"}) => (xfer.a_sz = xfer.t_sz /\ xfer.ret = 0)
  /\ (xfer.stage = "twice")
       => /\ xfer.mem.sz = xfer.a_sz
          /\ Prefix(xfer.mem[xfer.dst2], xfer.a_sz) = xfer.orig
  /\ (xfer.stage = "failed")
       => /\ xfer.a_sz # xfer.t_sz
          /\ xfer.ret = -1
          /\ xfer.mem = [a |-> xfer.orig, t |-> xfer.mem.t,
                          b |-> Fill(UnmaskMaxBytes, 238), sz |-> 0]

\* a number of two bytes has been unmasked twice in place with a token that
\* changes it
C28_TwiceInPlace ==
  /\ xfer.stage = "twice"
  /\ xfer.dst1 = "a" /\ xfer.dst2 = "a"
  /\ xfer.a_sz = 2
  /\ xfer.mem.t[1] # 0
  /\ xfer.mem.a = xfer.orig

----------------------------------------------------------------------------
(* Patch of one opcode *)

\* C30: hw_driver_patch_one_opcode_DBG, called with the driver set up, never
\* comes to a wait on the busy flag, for an opcode of one word or of two, and
\* so it cannot be held by an IP that is debug-halted with busy set.
C30_PatchNeverPollsBusy ==
  (phase = "running" /\ api.f = "hw_driver_patch_one_opcode_DBG" /\ entry.setup = 1)
    => ~AtOp("busy_wait")

\* the patch of an opcode of two words has written the first word and waits,
\* on an IP that is debug-halted with busy set, for a busy flag that stays set
C30_HeldBetweenWords ==
  /\ phase = "running"
  /\ api.f = "hw_driver_patch_one_opcode_DBG"
  /\ api.opsz = 2
  /\ entry.setup = 1
  /\ hw.halted
  /\ hw.busy
  /\ AtOp("busy_wait")
  /\ \E i \in DOMAIN trace : trace[i].reg = "W_DBG_OPCODE"
  /\ ~ENABLED NextDbg

----------------------------------------------------------------------------
(* The countermeasure switches in secure mode *)

\* C31: hw_driver_enable_xyshuf, hw_driver_enable_aximsk and
\* hw_driver_disable_aximsk_DBG, called with the driver set up while the
\* capability register reports secure mode, write no register, and the value
\* they return is failure.
C31_SwitchRefusedInSecureMode ==
  (phase \in {"running", "returned"} /\ api.f \in ShufMaskApis /\ entry.setup = 1 /\ hw.secure)
    => /\ \A i \in DOMAIN trace : ~IsRegWrite(trace[i])
       /\ phase = "returned" => ret = -1

\* hw_driver_disable_aximsk_DBG, called with the driver set up in secure mode,
\* has written the AXI masking register and has returned success
C31_MaskingDisabledInSecureMode ==
  /\ phase = "returned"
  /\ api.f = "hw_driver_disable_aximsk_DBG"
  /\ entry.setup = 1
  /\ hw.secure
  /\ ret = 0
  /\ \E i \in DOMAIN trace : trace[i].reg = "W_DBG_CFG_AXIMSK" /\ trace[i].val = 0

----------------------------------------------------------------------------
(* The output sizes and the work done before they are checked *)

\* one of the caller's output sizes is smaller than ceil(nn / 8)
OutputTooSmall == entry.mem.out_x_sz < BytesOfNn \/ entry.mem.out_y_sz < BytesOfNn

\* C32: when one of the caller's output sizes is smaller than ceil(nn / 8),
\* neg, dbl, add and mul write no operand, dispatch no command and generate no
\* token, and they return failure.
C32_SizesCheckedFirst ==
  (phase \in {"running", "returned"} /\ api.f \in ResultApis /\ OutputTooSmall)
    => /\ Indices(IsWriteSelect) = {}
       /\ Indices(IsDispatch) = {}
       /\ Indices(IsTokenGen) = {}
       /\ phase = "returned" => ret = -1

\* hw_driver_mul has returned failure for an output size that is too small,
\* after the token was generated, the operands written and the command run
C32_MulRunBeforeRefusal ==
  /\ phase = "returned"
  /\ api.f = "hw_driver_mul"
  /\ OutputTooSmall
  /\ ret = -1
  /\ Indices(IsTokenGen) # {}
  /\ Indices(IsScalarPush) # {}
  /\ \E i \in DOMAIN trace : IsDispatch(trace[i]) /\ trace[i].val.kind = "PT_KP"
  /\ \E i \in DOMAIN trace : IsCommandChecked(trace[i])
  /\ Indices(IsResultSelect) = {}

----------------------------------------------------------------------------
(* The duration of a scalar multiplication *)

\* the [k]P command has been dispatched
KpDispatched == \E i \in DOMAIN trace : IsDispatch(trace[i]) /\ trace[i].val.kind = "PT_KP"

\* no read of the error field made by the call has shown an error, and the IP
\* holds none
NoErrorShown ==
  /\ \A i \in DOMAIN trace : trace[i].reg = "check_error" => trace[i].val = {}
  /\ hw.err = {}
  /\ hw.pend = {}

\* C33: hw_driver_mul, given a kp_time pointer, on an IP that is not
\* debug-halted and runs the [k]P command without error, returns success and
\* has stored the duration of the operation in kp_time.
C33_MulTimed ==
  (/\ phase = "returned"
   /\ api.f = "hw_driver_mul"
   /\ api.kp_time # NULL
   /\ KpDispatched
   /\ NoErrorShown
   /\ ~hw.halted
   /\ ~OutputTooSmall)
    => /\ ret = 0
       /\ mem.kp_time = 1

\* hw_driver_mul, given a kp_time pointer, has returned failure after a [k]P
\* command that the IP ran to its end without error; neither the duration nor
\* the result has been read
C33_TimedMulRefused ==
  /\ phase = "returned"
  /\ api.f = "hw_driver_mul"
  /\ api.kp_time # NULL
  /\ KpDispatched
  /\ NoErrorShown
  /\ ~hw.halted /\ ~hw.busy
  /\ ~OutputTooSmall
  /\ ret = -1
  /\ mem.kp_time = entry.mem.kp_time
  /\ Indices(IsResultSelect) = {}

----------------------------------------------------------------------------
(* NULL input pointers *)

\* the inputs that the function called writes to the IP
InputsOf(a) ==
  {a.x, a.y}
  \cup (IF a.f \in TwoPointApis THEN {a.x2, a.y2} ELSE {})
  \cup (IF a.f = "hw_driver_mul" THEN {a.scalar} ELSE {})

\* one of them is a NULL pointer
NullInput == \E b \in InputsOf(api) : b.null

\* C34: a point operation called with a NULL pointer for an input coordinate
\* or for the scalar dispatches no command, and it returns failure.
C34_NullInputRefused ==
  (phase \in {"running", "returned"} /\ api.f \in PointApis /\ NullInput)
    => /\ Indices(IsDispatch) = {}
       /\ phase = "returned" => ret = -1

\* hw_driver_mul, called with a NULL scalar, has written no scalar, has run the
\* [k]P command on the scalar that the IP held, and has returned success
C34_MulOnStaleScalar ==
  /\ phase = "returned"
  /\ api.f = "hw_driver_mul"
  /\ api.scalar.null
  /\ ret = 0
  /\ Indices(IsScalarSelect) = {}
  /\ Indices(IsScalarPush) = {}
  /\ KpDispatched
  /\ Indices(IsResultSelect) # {}

----------------------------------------------------------------------------
(* A preset that is refused *)

\* hw_driver_attack_set_level has just returned failure
LevelIsRefused ==
  phase = "returned" /\ api.f = "hw_driver_attack_set_level" /\ ret = -1

\* C35: when hw_driver_attack_set_level returns failure, the attack
\* configuration register, the opcodes at the patched addresses, the AXI masking
\* and the shift-register masking are as they were when it was called.
C35_RefusedPresetChangesNothing ==
  LevelIsRefused => AttackCfg(hw) = AttackCfg(entry)

\* a preset has returned failure, its write of the attack configuration
\* register refused, after it patched the microcode
C35_PatchedThenRefused ==
  /\ LevelIsRefused
  /\ api.level = 0
  /\ hw.atk.cfg0 = entry.atk.cfg0
  /\ hw.atk.cfg0 # IPECC_ATTACK_SET_HW_CFG(TRUE, FALSE)
  /\ hw.atk.iram # entry.atk.iram
  /\ \A a \in AttackPatchAddresses : hw.atk.iram[a] # <<>>

----------------------------------------------------------------------------
(* The writes of the configuration functions *)

\* a write of a register other than the acknowledgement of errors
IsConfigWrite(e) == IsRegWrite(e) /\ e.reg # "W_ERR_ACK"

\* C36: once the driver is set up, every register write of a configuration
\* function (small scalar size, blinding, Z-remask) follows a poll that showed
\* the busy flag clear, and the function returns success only after a read of
\* the error field that follows the write.
C36_ConfigWritesChecked ==
  (phase \in {"running", "returned"} /\ api.f \in CfgApis /\ entry.setup = 1)
    => \A i \in Indices(IsConfigWrite) :
         /\ trace[i].gated
         /\ (phase = "returned" /\ ret = 0)
              => \E c \in DOMAIN trace : c > i /\ trace[c].reg = "check_error"

\* hw_driver_set_small_scalar_size has written the size with no poll of the
\* busy flag before and no read of the error field after, and has returned
\* success
C36_SmallScalarUnchecked ==
  /\ phase = "returned"
  /\ api.f = "hw_driver_set_small_scalar_size"
  /\ entry.setup = 1
  /\ ret = 0
  /\ Len(trace) = 1
  /\ trace[1].reg = "W_SMALL_SCALAR"
  /\ ~trace[1].gated

----------------------------------------------------------------------------
(* A Z-remask period of 0 *)

\* C40: hw_driver_enable_zremask_and_set_period called with a period of 0 does
\* not write the Z-remask register, and it returns failure.
C40_PeriodZeroRefused ==
  (phase \in {"running", "returned"} /\ api.f = "hw_driver_enable_zremask_and_set_period"
   /\ api.period = 0)
    => /\ \A i \in DOMAIN trace : trace[i].reg # "W_ZREMASK"
       /\ phase = "returned" => ret = -1

\* the function, called with a period of 0 on a driver that is set up, has
\* found no error in the IP, has written nothing and has returned success
C40_PeriodZeroAccepted ==
  /\ phase = "returned"
  /\ api.f = "hw_driver_enable_zremask_and_set_period"
  /\ api.period = 0
  /\ entry.setup = 1
  /\ ret = 0
  /\ \A i \in DOMAIN trace : ~IsRegWrite(trace[i])
  /\ \E i \in DOMAIN trace : trace[i].reg = "check_error" /\ trace[i].val = {}

----------------------------------------------------------------------------
(* A breakpoint id that is out of range *)

\* the writes of the breakpoint register
BkptWrites == {i \in DOMAIN trace : trace[i].reg = "W_DBG_BKPT"}

\* C37: hw_driver_set_breakpoint_DBG and hw_driver_remove_breakpoint_DBG, called
\* with a breakpoint id outside 0..3, do not write the breakpoint register, so
\* that no slot changes, and they return failure.
C37_BadBreakpointIdRefused ==
  (phase \in {"running", "returned"} /\ api.f \in BkptApis /\ api.id \notin 0..3)
    => /\ BkptWrites = {}
       /\ phase = "returned" => ret = -1

\* hw_driver_set_breakpoint_DBG, called with an id outside 0..3, has enabled
\* the slot that the two low bits of the id name, and has returned success
C37_LowBitsSlotSet ==
  /\ phase = "returned"
  /\ api.f = "hw_driver_set_breakpoint_DBG"
  /\ api.id \in BadBkptIds
  /\ ret = 0
  /\ \E i \in BkptWrites : trace[i].val.en /\ trace[i].val.id = api.id % 4

----------------------------------------------------------------------------
(* The post-processing of the TRNG around the measure of the filling time *)

\* the writes of the control register of the post-processing
PostpWrites == {i \in DOMAIN trace : trace[i].reg = "W_DBG_TRNG_CTRL_POSTP"}

\* the call has disabled the post-processing
PostpDisabled == \E i \in PostpWrites : trace[i].val = Pow2(0)

\* the last write of the control register enables the post-processing
PostpEnabledLast ==
  \E i \in PostpWrites : trace[i].val = 0 /\ \A j \in PostpWrites : j <= i

\* C38: when hw_driver_get_trng_raw_fifo_filling_time_DBG returns after
\* ip_ecc_get_trng_raw_fifo_filling_time has disabled the post-processing of
\* the TRNG, with success or on the timeout of the watchdog, the post-processing
\* has been enabled again.
C38_PostprocRestored ==
  (/\ phase = "returned"
   /\ api.f = "hw_driver_get_trng_raw_fifo_filling_time_DBG"
   /\ PostpDisabled)
    => PostpEnabledLast

\* the measure has timed out and the function has returned failure, leaving
\* the post-processing disabled
C38_LeftDisabledOnTimeout ==
  /\ phase = "returned"
  /\ api.f = "hw_driver_get_trng_raw_fifo_filling_time_DBG"
  /\ ret = -1
  /\ loc.watchdog = WatchdogMax
  /\ PostpDisabled
  /\ ~PostpEnabledLast

----------------------------------------------------------------------------
(* A trace that follows one whose buffer overflowed *)

\* kp_trace_msg_append is called for a line, in a buffer that is not within
\* 32 bytes of its end
AppendWithRoom ==
  /\ AtOp("trace_append")
  /\ prog' = Tail(prog)
  /\ ~ktrc.null
  /\ ~AboutToReachMax(ktrc.msgsz, ktrc.msgsz_max)

\* C39: a line appended to a trace buffer that has room is recorded, whatever
\* happened to the buffers of the traces before: a trace that follows one whose
\* buffer overflowed, given an empty buffer, records its lines.
C39_FreshTraceRecords ==
  [][AppendWithRoom => ktrc'.msgsz = ktrc.msgsz + Head(prog).len]_vars

\* a traced [k]P has stepped through the microcode to its end and returned
\* success with nothing recorded in the empty buffer of 400 bytes it was given,
\* the overflow of an earlier trace still being remembered
C39_LaterTraceEmpty ==
  /\ InKpTrace /\ phase = "returned" /\ ret = 0
  /\ ~ktrc.null
  /\ ktrc.msgsz_max = 400
  /\ ktrc.msgsz = 0
  /\ ktrc.nb_steps > 0
  /\ ktrc.overflow

====
